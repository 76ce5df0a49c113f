--------------------- MODULE MultiClusterServiceProofs ---------------------
(***************************************************************************)
(* FanoutInv of module MultiClusterService, and that the controller        *)
(* implements OrderedRollout, for any objects, dependencies, clusters and  *)
(* labels and any number of upgrades, edits and faults.                    *)
(***************************************************************************)
EXTENDS MultiClusterService, FiniteSetTheorems, TLAPS

(* What okToReconcileServiceSet has found when it lets a target be written *)
(* is still so when it is written: a version that has landed has landed.   *)
Cleared(m, t) ==
    \A d \in snap[m].deps :
        /\ plan[m][d] # NoSpec
        /\ Targets(plan[m][d], view[m][t], t) => <<d, t, plan[m][d].version>> \in landed

OrderInv ==
    /\ \A m \in MCS, t \in Target : rep[<<m, t>>] # 0 => <<m, t, rep[<<m, t>>]>> \in landed
    /\ \A m \in MCS : /\ pc[m] # "idle" => snap[m] \in Specs
                      /\ pc[m] = "write" => Cleared(m, aim[m])

(* The finalizer is there as long as there may be ServiceSets, or a pass   *)
(* that makes some.                                                        *)
Bare(m) == \A t \in Target : set[<<m, t>>] = 0

FinalizerInv ==
    \A m \in MCS :
        /\ phase[m] = "deleting" => fin[m]
        /\ phase[m] = "gone" => ~fin[m]
        /\ ~fin[m] => pc[m] = "idle" /\ Bare(m)
        /\ pc[m] = "finalizer" => Bare(m)

(* The targets a pass has to do or found waiting are among those it will   *)
(* report on.  The management cluster comes first.                         *)
Walking == {"list", "check", "write", "status"}

TargetsInv ==
    \A m \in MCS :
        /\ pc[m] \notin Walking => blocked[m] = {}
        /\ pc[m] \in Walking => blocked[m] \subseteq Matching(m)
        /\ pc[m] \in {"check", "write"} =>
              /\ todo[m] \subseteq Matching(m)
              /\ Mgmt \in todo[m] => todo[m] = {Mgmt} /\ blocked[m] = {}
        /\ pc[m] = "write" => aim[m] \in todo[m]
        /\ pc[m] = "list" => blocked[m] \subseteq {Mgmt}

FanoutIInv == TypeOK /\ OrderInv /\ FinalizerInv /\ TargetsInv /\ StatusAgrees

-----------------------------------------------------------------------------
(* The parts of the type invariant                                         *)

ObjectsOK ==
    /\ spec \in [MCS -> Specs]
    /\ phase \in [MCS -> {"live", "deleting", "gone"}]
    /\ fin \in [MCS -> BOOLEAN]
    /\ stat \in [MCS -> Status]

ClustersOK ==
    /\ cd \in [Cluster -> {"live", "deleting", "gone"}]
    /\ label \in [Cluster -> Label]

SetsOK ==
    /\ set \in [MCS \X Target -> 0 .. MaxVersion]
    /\ rep \in [MCS \X Target -> 0 .. MaxVersion]
    /\ del \in [MCS \X Target -> BOOLEAN]
    /\ landed \subseteq MCS \X Target \X Version

ReadingOK ==
    /\ snap \in [MCS -> Specs \union {NoSpec}]
    /\ fresh \in [MCS -> BOOLEAN]
    /\ plan \in [MCS -> [MCS -> Specs \union {NoSpec}]]
    /\ view \in [MCS -> [Target -> Label \union {NoSelector}]]

WorkOK ==
    /\ pc \in [MCS -> Steps]
    /\ todo \in [MCS -> SUBSET Target]
    /\ aim \in [MCS -> Target]
    /\ blocked \in [MCS -> SUBSET Target]
    /\ failed \in [MCS -> BOOLEAN]

BoundsOK == upgrades \in 0 .. MaxChanges /\ faults \in 0 .. MaxFaults

LEMMA TypeParts ==
    TypeOK <=> ObjectsOK /\ ClustersOK /\ SetsOK /\ ReadingOK /\ WorkOK /\ BoundsOK
BY DEF TypeOK, ObjectsOK, ClustersOK, SetsOK, ReadingOK, WorkOK, BoundsOK

LEMMA TypeAfter ==
    ASSUME ObjectsOK', ClustersOK', SetsOK', ReadingOK', WorkOK', BoundsOK' PROVE TypeOK'
BY DEF TypeOK, ObjectsOK, ClustersOK, SetsOK, ReadingOK, WorkOK, BoundsOK

(* What a state function keeps that reads only variables left alone.       *)
LEMMA Frames ==
    ASSUME TypeOK
    PROVE  /\ UNCHANGED objects => ObjectsOK'
           /\ UNCHANGED clusters => ClustersOK'
           /\ UNCHANGED sets => SetsOK'
           /\ UNCHANGED reading => ReadingOK'
           /\ UNCHANGED bounds => BoundsOK'
BY TypeParts DEF ObjectsOK, ClustersOK, SetsOK, ReadingOK, BoundsOK,
                 objects, clusters, sets, reading, bounds

LEMMA Constants ==
    /\ Mgmt \in Target /\ Cluster \subseteq Target
    /\ NoSpec \notin Specs /\ NoSpecs \in [MCS -> Specs \union {NoSpec}]
    /\ Unlisted \in [Target -> Label \union {NoSelector}]
    /\ \A s \in Specs : s.version \in 1 .. MaxVersion /\ s.deps \subseteq MCS
<1>1. \A s \in Specs : s.version \in 1 .. MaxVersion /\ s.deps \subseteq MCS
  BY DEF Specs, Version
<1>2. NoSpec.version = 0
  BY DEF NoSpec
<1>3. NoSpec \notin Specs
  BY <1>1, <1>2, MCSAssumption
<1> QED
  BY <1>1, <1>3 DEF Target, NoSpecs, Unlisted

LEMMA ListedType == TypeOK => Listed \in [Target -> Label \union {NoSelector}]
BY DEF TypeOK, Listed

LEMMA DisturbType == TypeOK /\ Disturb /\ UNCHANGED upgrades => BoundsOK'
BY MCSAssumption DEF TypeOK, Disturb, BoundsOK

-----------------------------------------------------------------------------
(* The pass of one object                                                  *)

Others(m) ==
    \A n \in MCS \ {m} :
        /\ pc'[n] = pc[n] /\ snap'[n] = snap[n] /\ plan'[n] = plan[n] /\ view'[n] = view[n]
        /\ todo'[n] = todo[n] /\ aim'[n] = aim[n] /\ blocked'[n] = blocked[n]

LEMMA DoneType ==
    ASSUME TypeOK, NEW m \in MCS, Done(m)
    PROVE  /\ ReadingOK' /\ WorkOK'
           /\ Others(m) /\ pc'[m] = "idle" /\ blocked'[m] = {}
<1>1. ReadingOK'
  BY Constants DEF TypeOK, Done, ReadingOK
<1>2. WorkOK'
  BY Constants DEF TypeOK, Done, To, WorkOK, Steps
<1> QED
  BY <1>1, <1>2 DEF TypeOK, Done, To, Others

LEMMA OrderStep ==
    ASSUME FanoutIInv, NEW m \in MCS, Others(m), UNCHANGED <<rep, landed>>,
           pc'[m] # "write", pc'[m] # "idle" => snap'[m] \in Specs
    PROVE  OrderInv'
BY DEF FanoutIInv, OrderInv, Others, Cleared

LEMMA TargetsStep ==
    ASSUME FanoutIInv, NEW m \in MCS, Others(m), pc'[m] \notin Walking, blocked'[m] = {}
    PROVE  TargetsInv'
BY DEF FanoutIInv, TargetsInv, Others, Matching, Walking

LEMMA FinalizerStep ==
    ASSUME FanoutIInv, NEW m \in MCS, Others(m), UNCHANGED <<phase, fin, set>>,
           pc[m] # "idle" \/ pc'[m] = "idle", pc'[m] # "finalizer"
    PROVE  FinalizerInv'
BY DEF FanoutIInv, FinalizerInv, Others, Bare

(* A pass that ends, having written at most the status.                    *)
LEMMA DoneStep ==
    ASSUME FanoutIInv, NEW m \in MCS, Done(m), UNCHANGED <<phase, fin, sets>>
    PROVE  /\ ReadingOK' /\ WorkOK' /\ SetsOK'
           /\ OrderInv' /\ FinalizerInv' /\ TargetsInv'
<1>1. TypeOK
  BY DEF FanoutIInv
<1>2. ReadingOK' /\ WorkOK' /\ Others(m) /\ pc'[m] = "idle" /\ blocked'[m] = {}
  BY <1>1, DoneType
<1>3. UNCHANGED <<set, rep, landed>> /\ SetsOK'
  BY <1>1, Frames DEF sets
<1>4. pc'[m] \notin Walking
  BY <1>2 DEF Walking
<1> QED
  BY <1>2, <1>3, <1>4, OrderStep, TargetsStep, FinalizerStep

(* Somebody moves who is not the controller: the passes stay.              *)
LEMMA PassesStay ==
    ASSUME FanoutIInv, UNCHANGED <<pc, snap, plan, view, todo, aim, blocked>>, landed \subseteq landed',
           \A m \in MCS, t \in Target : \/ rep'[<<m, t>>] = rep[<<m, t>>]
                                        \/ rep'[<<m, t>>] = 0
                                        \/ <<m, t, rep'[<<m, t>>]>> \in landed'
    PROVE  OrderInv' /\ TargetsInv'
<1>1. OrderInv'
  BY DEF FanoutIInv, OrderInv, Cleared
<1>2. TargetsInv'
  BY DEF FanoutIInv, TargetsInv, Matching
<1> QED
  BY <1>1, <1>2

(* After a target the pass goes on to the next one, to the list of the     *)
(* ClusterDeployments or to the status.                                    *)
LEMMA CheckedTarget ==
    ASSUME TypeOK, NEW m \in MCS, NEW t \in todo[m], Checked(m, t)
    PROVE  /\ pc' \in [MCS -> Steps] /\ todo' \in [MCS -> SUBSET Target]
           /\ todo'[m] = todo[m] \ {t}
           /\ pc'[m] \in {"list", "status", "check"} /\ (pc'[m] = "list" <=> t = Mgmt)
           /\ \A n \in MCS \ {m} : pc'[n] = pc[n] /\ todo'[n] = todo[n]
BY DEF TypeOK, Checked, To, Steps

LEMMA TargetsChecked ==
    ASSUME FanoutIInv, NEW m \in MCS, pc[m] \in {"check", "write"},
           NEW t \in todo[m], Checked(m, t), Others(m), UNCHANGED <<snap, view>>,
           blocked'[m] \subseteq blocked[m] \union {t}
    PROVE  TargetsInv'
<1>1. /\ todo'[m] = todo[m] \ {t}
      /\ pc'[m] \in {"list", "status", "check"} /\ (pc'[m] = "list" <=> t = Mgmt)
  BY CheckedTarget DEF FanoutIInv
<1>2. /\ blocked[m] \subseteq Matching(m) /\ todo[m] \subseteq Matching(m)
      /\ Mgmt \in todo[m] => todo[m] = {Mgmt} /\ blocked[m] = {}
  BY DEF FanoutIInv, TargetsInv, Walking
<1>3. \A n \in MCS : Matching(n)' = Matching(n)
  BY DEF Matching
<1>4. ASSUME NEW n \in MCS, n # m
      PROVE  /\ pc'[n] \notin Walking => blocked'[n] = {}
             /\ pc'[n] \in Walking => blocked'[n] \subseteq Matching(n)'
             /\ pc'[n] \in {"check", "write"} =>
                   /\ todo'[n] \subseteq Matching(n)'
                   /\ Mgmt \in todo'[n] => todo'[n] = {Mgmt} /\ blocked'[n] = {}
             /\ pc'[n] = "write" => aim'[n] \in todo'[n]
             /\ pc'[n] = "list" => blocked'[n] \subseteq {Mgmt}
  BY <1>3, <1>4 DEF FanoutIInv, TargetsInv, Others
<1>5. /\ pc'[m] \in Walking /\ blocked'[m] \subseteq Matching(m)'
      /\ todo'[m] \subseteq Matching(m)' /\ pc'[m] # "write"
      /\ pc'[m] = "check" => Mgmt \notin todo'[m]
      /\ pc'[m] = "list" => blocked'[m] \subseteq {Mgmt}
  BY <1>1, <1>2, <1>3 DEF Walking
<1> QED
  BY <1>4, <1>5 DEF TargetsInv

-----------------------------------------------------------------------------
(* The steps of the pass that creates and updates                          *)

LEMMA ReconcileInductive ==
    ASSUME FanoutIInv, NEW m \in MCS, Reconcile(m) PROVE FanoutIInv'
<1>t. TypeOK /\ OrderInv /\ FinalizerInv /\ TargetsInv /\ StatusAgrees
  BY DEF FanoutIInv
<1>1. /\ pc[m] = "idle" /\ Exists(m)
      /\ snap' = [snap EXCEPT ![m] = spec[m]] /\ fresh' = [fresh EXCEPT ![m] = TRUE]
      /\ plan' = [plan EXCEPT ![m] = NoSpecs]
      /\ UNCHANGED <<spec, phase, stat, clusters, sets, view, todo, aim, blocked, failed, bounds>>
  BY DEF Reconcile
<1>2. \/ phase[m] = "deleting" /\ pc' = [pc EXCEPT ![m] = "validateDelete"] /\ UNCHANGED fin
      \/ phase[m] = "live" /\ pc' = [pc EXCEPT ![m] = "validate"] /\ fin' = [fin EXCEPT ![m] = TRUE]
  BY DEF Reconcile, To
<1>3. ObjectsOK' /\ ClustersOK' /\ SetsOK' /\ BoundsOK'
  BY <1>t, <1>1, <1>2, TypeParts, Frames DEF ObjectsOK
<1>4. ReadingOK'
  BY <1>t, <1>1, TypeParts, Constants DEF ReadingOK, ObjectsOK
<1>5. WorkOK' /\ Others(m) /\ pc'[m] \in {"validate", "validateDelete"} /\ snap'[m] \in Specs
  BY <1>t, <1>1, <1>2, TypeParts DEF WorkOK, Others, ReadingOK, ObjectsOK, Steps
<1>6. TypeOK'
  BY <1>3, <1>4, <1>5, TypeAfter
<1>7. pc'[m] \notin Walking /\ blocked'[m] = {} /\ UNCHANGED <<rep, landed, set, stat>>
  BY <1>t, <1>1, <1>5 DEF TargetsInv, Walking, sets
<1>8. OrderInv' /\ TargetsInv'
  BY <1>5, <1>7, OrderStep, TargetsStep
<1>9. FinalizerInv'
  BY <1>t, <1>1, <1>2, <1>5, <1>7, TypeParts DEF FinalizerInv, Others, Bare, ObjectsOK
<1> QED
  BY <1>t, <1>6, <1>7, <1>8, <1>9 DEF FanoutIInv, StatusAgrees

(* A step that changes what the pass has to do, and its next call.         *)
LEMMA QuietStep ==
    ASSUME FanoutIInv, NEW m \in MCS, pc[m] \notin Walking, pc[m] # "idle", NEW step \in Steps,
           To(m, step), step \notin Walking, step # "idle", step # "finalizer",
           todo' \in [MCS -> SUBSET Target], \A n \in MCS \ {m} : todo'[n] = todo[n],
           UNCHANGED <<reading, aim, blocked, failed, phase, fin, set, rep, landed, stat>>
    PROVE  /\ WorkOK' /\ ReadingOK'
           /\ OrderInv' /\ FinalizerInv' /\ TargetsInv' /\ StatusAgrees'
<1>t. TypeOK /\ OrderInv /\ FinalizerInv /\ TargetsInv /\ StatusAgrees
  BY DEF FanoutIInv
<1>1. WorkOK' /\ ReadingOK'
  BY <1>t, TypeParts, Frames DEF WorkOK, To
<1>2. Others(m) /\ pc'[m] = step
  BY <1>t, TypeParts DEF Others, To, WorkOK, reading
<1>3. pc'[m] \notin Walking /\ blocked'[m] = {} /\ snap'[m] \in Specs
  BY <1>t, <1>2 DEF TargetsInv, OrderInv, reading
<1> QED
  BY <1>t, <1>1, <1>2, <1>3, OrderStep, TargetsStep, FinalizerStep DEF StatusAgrees, Walking

LEMMA ValidateInductive ==
    ASSUME FanoutIInv, NEW m \in MCS, Validate(m) PROVE FanoutIInv'
<1>t. TypeOK /\ StatusAgrees
  BY DEF FanoutIInv
<1>1. pc[m] = "validate" /\ UNCHANGED <<objects, clusters, sets, bounds>>
  BY DEF Validate
<1>2. ObjectsOK' /\ ClustersOK' /\ SetsOK' /\ BoundsOK'
  BY <1>t, <1>1, Frames
<1>3. UNCHANGED <<phase, fin, set, rep, landed, stat>>
  BY <1>1 DEF objects, sets
<1>4. CASE Valid(m)
  <2> DEFINE left == IF snap[m].keep THEN {} ELSE {t \in Placed(m) : ~del[<<m, t>>]}
  <2>1. todo' = [todo EXCEPT ![m] = left] /\ left \subseteq Target
        /\ UNCHANGED <<reading, aim, blocked, failed>>
    BY <1>4 DEF Validate, Placed
  <2>2. PICK step \in {"resolve", "cleanup"} : To(m, step)
    BY <1>4 DEF Validate
  <2>3. todo' \in [MCS -> SUBSET Target] /\ \A n \in MCS \ {m} : todo'[n] = todo[n]
    BY <1>t, <2>1 DEF TypeOK
  <2>4. step \in Steps \ Walking /\ step # "idle" /\ step # "finalizer" /\ pc[m] \notin Walking
    BY <1>1 DEF Steps, Walking
  <2>5. /\ WorkOK' /\ ReadingOK'
        /\ OrderInv' /\ FinalizerInv' /\ TargetsInv' /\ StatusAgrees'
    BY <1>1, <1>3, <2>1, <2>2, <2>3, <2>4, QuietStep
  <2> QED
    BY <1>2, <2>5, TypeAfter DEF FanoutIInv
<1>5. CASE ~Valid(m)
  <2>1. Done(m)
    BY <1>5 DEF Validate
  <2> QED
    BY <1>t, <1>1, <1>2, <1>3, <2>1, DoneStep, TypeAfter DEF FanoutIInv, StatusAgrees
<1> QED
  BY <1>4, <1>5

(* Passes that end without a word.                                         *)
LEMMA EndInductive ==
    ASSUME FanoutIInv, NEW m \in MCS, Done(m), UNCHANGED <<objects, clusters, sets>>, BoundsOK'
    PROVE  FanoutIInv'
<1>t. TypeOK /\ StatusAgrees
  BY DEF FanoutIInv
<1>1. ObjectsOK' /\ ClustersOK' /\ SetsOK'
  BY <1>t, Frames
<1>2. UNCHANGED <<phase, fin, stat>>
  BY DEF objects
<1> QED
  BY <1>t, <1>1, <1>2, DoneStep, TypeAfter DEF FanoutIInv, StatusAgrees

LEMMA CleanupInductive ==
    ASSUME FanoutIInv, NEW m \in MCS, NEW t \in Target, CleanupServiceSet(m, t) PROVE FanoutIInv'
<1>t. TypeOK
  BY DEF FanoutIInv
<1>1. /\ pc[m] = "cleanup" /\ todo' = [todo EXCEPT ![m] = @ \ {t}]
      /\ del' = del \/ del' = [del EXCEPT ![<<m, t>>] = TRUE]
      /\ UNCHANGED <<objects, clusters, set, rep, landed, reading, aim, blocked, failed, bounds>>
  BY DEF CleanupServiceSet
<1>2. PICK step \in {"resolve", "cleanup"} : To(m, step)
  BY DEF CleanupServiceSet
<1>3. todo' \in [MCS -> SUBSET Target] /\ \A n \in MCS \ {m} : todo'[n] = todo[n]
  BY <1>t, <1>1 DEF TypeOK
<1>4. step \in Steps \ Walking /\ step # "idle" /\ step # "finalizer" /\ pc[m] \notin Walking
  BY <1>1 DEF Steps, Walking
<1>5. SetsOK'
  BY <1>t, <1>1, TypeParts DEF SetsOK
<1>6. ObjectsOK' /\ ClustersOK' /\ BoundsOK' /\ UNCHANGED <<phase, fin, stat>>
  BY <1>t, <1>1, Frames DEF objects
<1>7. /\ WorkOK' /\ ReadingOK'
      /\ OrderInv' /\ FinalizerInv' /\ TargetsInv' /\ StatusAgrees'
  BY <1>1, <1>2, <1>3, <1>4, <1>6, QuietStep
<1> QED
  BY <1>5, <1>6, <1>7, TypeAfter DEF FanoutIInv

LEMMA FailsInductive ==
    ASSUME FanoutIInv, NEW m \in MCS,
           PassFails(m) \/ \E t \in Target : CleanupFails(m, t)
    PROVE  FanoutIInv'
<1>t. TypeOK
  BY DEF FanoutIInv
<1>1. Done(m) /\ UNCHANGED <<objects, clusters, sets>>
  BY DEF PassFails, CleanupFails
<1>2. UNCHANGED bounds \/ (Disturb /\ UNCHANGED upgrades)
  BY DEF PassFails, CleanupFails
<1> QED
  BY <1>t, <1>1, <1>2, Frames, DisturbType, EndInductive

(* The management cluster is the first target, when the spec that was read *)
(* asks for it.                                                            *)
LEMMA ResolveInductive ==
    ASSUME FanoutIInv, NEW m \in MCS, ResolveDependencies(m) PROVE FanoutIInv'
<1>t. TypeOK /\ OrderInv /\ FinalizerInv /\ TargetsInv /\ StatusAgrees
  BY DEF FanoutIInv
<1> DEFINE read == [d \in MCS |-> IF d \in snap[m].deps /\ Exists(d) THEN spec[d] ELSE NoSpec]
           first == IF snap[m].self THEN {Mgmt} ELSE {}
<1>1. /\ pc[m] = "resolve" /\ plan' = [plan EXCEPT ![m] = read]
      /\ pc' = [pc EXCEPT ![m] = IF snap[m].self THEN "check" ELSE "list"]
      /\ todo' = [todo EXCEPT ![m] = first]
      /\ UNCHANGED <<objects, clusters, sets, snap, fresh, view, aim, blocked, failed, bounds>>
  BY DEF ResolveDependencies, To
<1>2. read \in [MCS -> Specs \union {NoSpec}]
  BY <1>t DEF TypeOK
<1>3. ReadingOK'
  BY <1>t, <1>1, <1>2, TypeParts DEF ReadingOK
<1>4. first \subseteq Target
  BY Constants
<1>5. WorkOK'
  BY <1>t, <1>1, <1>4, TypeParts DEF WorkOK, Steps
<1>6. Others(m) /\ pc'[m] \in {"check", "list"} /\ todo'[m] = first /\ blocked'[m] = {}
      /\ (pc'[m] = "check" => snap[m].self)
  BY <1>t, <1>1 DEF TypeOK, Others, TargetsInv, Walking
<1>7. ObjectsOK' /\ ClustersOK' /\ SetsOK' /\ BoundsOK'
      /\ UNCHANGED <<phase, fin, stat, set, rep, landed>>
  BY <1>t, <1>1, Frames DEF objects, sets
<1>8. OrderInv' /\ FinalizerInv'
  BY <1>t, <1>1, <1>6, <1>7, OrderStep, FinalizerStep DEF OrderInv
<1>9. first \subseteq Matching(m)' /\ \A n \in MCS : Matching(n)' = Matching(n)
  BY <1>1 DEF Matching
<1>10. TargetsInv'
  BY <1>t, <1>6, <1>9 DEF TargetsInv, Others, Walking
<1> QED
  BY <1>t, <1>3, <1>5, <1>7, <1>8, <1>10, TypeAfter DEF FanoutIInv, StatusAgrees

(* Nothing unread and nothing behind: every dependency on the target has   *)
(* landed there at the version that was read.                              *)
LEMMA NothingBehind ==
    ASSUME FanoutIInv, NEW m \in MCS, NEW t \in Target, snap[m] \in Specs,
           Unread(m) = {}, Behind(m, t) = {}
    PROVE  Cleared(m, t)
<1> SUFFICES ASSUME NEW d \in snap[m].deps
             PROVE  /\ plan[m][d] # NoSpec
                    /\ Targets(plan[m][d], view[m][t], t) =>
                          <<d, t, plan[m][d].version>> \in landed
  BY DEF Cleared
<1>1. d \in MCS
  BY Constants
<1>2. plan[m][d] # NoSpec
  BY DEF Unread
<1>3. ASSUME Targets(plan[m][d], view[m][t], t) PROVE AtDesiredVersion(d, t, plan[m][d].version)
  BY <1>3 DEF Behind, Relevant
<1>4. ASSUME AtDesiredVersion(d, t, plan[m][d].version)
      PROVE  <<d, t, plan[m][d].version>> \in landed
  BY <1>1, <1>4 DEF AtDesiredVersion, FanoutIInv, OrderInv
<1> QED
  BY <1>2, <1>3, <1>4

LEMMA CheckInductive ==
    ASSUME FanoutIInv, NEW m \in MCS, NEW t \in Target, NEW lost,
           OkToReconcileServiceSet(m, t, lost), BoundsOK'
    PROVE  FanoutIInv'
<1>t. TypeOK /\ OrderInv /\ FinalizerInv /\ TargetsInv /\ StatusAgrees
  BY DEF FanoutIInv
<1> DEFINE waits == Behind(m, t) \ lost # {}
           error == Unread(m) \union lost # {}
<1>1. /\ pc[m] = "check" /\ t \in todo[m]
      /\ blocked' = [blocked EXCEPT ![m] = IF waits THEN @ \union {t} ELSE @]
      /\ failed' = [failed EXCEPT ![m] = @ \/ error]
      /\ aim' = [aim EXCEPT ![m] = IF waits \/ error THEN @ ELSE t]
      /\ UNCHANGED <<objects, clusters, sets, reading, upgrades>>
  BY DEF OkToReconcileServiceSet
<1>2. ObjectsOK' /\ ClustersOK' /\ SetsOK' /\ ReadingOK'
      /\ UNCHANGED <<phase, fin, stat, set, rep, landed, snap, plan, view>>
  BY <1>t, <1>1, Frames DEF objects, sets, reading
<1>3. /\ blocked' \in [MCS -> SUBSET Target] /\ failed' \in [MCS -> BOOLEAN]
      /\ aim' \in [MCS -> Target] /\ blocked'[m] \subseteq blocked[m] \union {t}
      /\ \A n \in MCS \ {m} : blocked'[n] = blocked[n] /\ aim'[n] = aim[n]
  <2> HIDE DEF waits, error
  <2> QED
    BY <1>t, <1>1 DEF TypeOK
<1>4. snap[m] \in Specs
  BY <1>t, <1>1 DEF OrderInv
<1>5. CASE waits \/ error
  <2>1. Checked(m, t)
    BY <1>5 DEF OkToReconcileServiceSet
  <2>2. /\ pc' \in [MCS -> Steps] /\ todo' \in [MCS -> SUBSET Target]
        /\ pc'[m] \in {"list", "status", "check"}
        /\ \A n \in MCS \ {m} : pc'[n] = pc[n] /\ todo'[n] = todo[n]
    BY <1>t, <1>1, <2>1, CheckedTarget
  <2>3. WorkOK' /\ Others(m)
    BY <1>2, <1>3, <2>2 DEF WorkOK, Others
  <2>4. OrderInv' /\ FinalizerInv'
    BY <1>1, <1>2, <1>4, <2>2, <2>3, OrderStep, FinalizerStep
  <2>5. TargetsInv'
    BY <1>1, <1>2, <1>3, <2>1, <2>3, TargetsChecked
  <2> QED
    BY <1>t, <1>2, <2>3, <2>4, <2>5, TypeAfter DEF FanoutIInv, StatusAgrees
<1>6. CASE ~(waits \/ error)
  <2>1. pc' = [pc EXCEPT ![m] = "write"] /\ UNCHANGED todo
    BY <1>6 DEF OkToReconcileServiceSet, To
  <2>2. aim'[m] = t /\ blocked'[m] = blocked[m] /\ pc'[m] = "write"
    <3> HIDE DEF waits, error
    <3> QED
      BY <1>t, <1>1, <1>6, <2>1 DEF TypeOK
  <2>3. WorkOK' /\ Others(m)
    BY <1>t, <1>2, <1>3, <2>1 DEF TypeOK, WorkOK, Others, Steps
  <2>4. Cleared(m, t)
    <3>1. Unread(m) = {} /\ Behind(m, t) = {}
      BY <1>6
    <3> QED
      BY <1>4, <3>1, NothingBehind
  <2>5. OrderInv'
    BY <1>t, <1>2, <1>4, <2>2, <2>3, <2>4 DEF OrderInv, Others, Cleared
  <2>6. FinalizerInv'
    BY <1>1, <1>2, <2>2, <2>3, FinalizerStep
  <2>7. \A n \in MCS : Matching(n)' = Matching(n)
    BY <1>2 DEF Matching
  <2>8. TargetsInv'
    BY <1>t, <1>1, <2>1, <2>2, <2>3, <2>7 DEF TargetsInv, Others, Walking
  <2> QED
    BY <1>t, <1>2, <2>3, <2>5, <2>6, <2>8, TypeAfter DEF FanoutIInv, StatusAgrees
<1> QED
  BY <1>5, <1>6

LEMMA ChecksInductive ==
    ASSUME FanoutIInv, NEW m \in MCS, NEW t \in Target, Check(m, t) \/ CheckFails(m, t)
    PROVE  FanoutIInv'
<1>t. TypeOK
  BY DEF FanoutIInv
<1>1. CASE Check(m, t)
  <2>1. OkToReconcileServiceSet(m, t, {}) /\ UNCHANGED bounds
    BY <1>1 DEF Check, OkToReconcileServiceSet, bounds
  <2> QED
    BY <1>t, <2>1, Frames, CheckInductive
<1>2. CASE CheckFails(m, t)
  <2>1. PICK d \in Relevant(m, t) : OkToReconcileServiceSet(m, t, {d})
    BY <1>2 DEF CheckFails
  <2>2. Disturb /\ UNCHANGED upgrades
    BY <1>2, <2>1 DEF CheckFails, OkToReconcileServiceSet
  <2> QED
    BY <1>t, <2>1, <2>2, DisturbType, CheckInductive
<1> QED
  BY <1>1, <1>2

(* The target that was checked is written, or the write fails.             *)
LEMMA WriteInductive ==
    ASSUME FanoutIInv, NEW m \in MCS, CreateOrUpdateServiceSet(m) \/ WriteFails(m)
    PROVE  FanoutIInv'
<1>t. TypeOK /\ OrderInv /\ FinalizerInv /\ TargetsInv /\ StatusAgrees
  BY DEF FanoutIInv
<1>1. /\ pc[m] = "write" /\ Checked(m, aim[m]) /\ aim' = [aim EXCEPT ![m] = Mgmt]
      /\ set' = set \/ set' = [set EXCEPT ![<<m, aim[m]>>] = snap[m].version]
      /\ UNCHANGED <<objects, clusters, rep, del, landed, reading, blocked, failed>>
  BY DEF CreateOrUpdateServiceSet, WriteFails, sets
<1>2. BoundsOK'
  BY <1>t, Frames, DisturbType DEF CreateOrUpdateServiceSet, WriteFails
<1>3. aim[m] \in todo[m] /\ aim[m] \in Target /\ snap[m].version \in 0 .. MaxVersion
  BY <1>t, <1>1, Constants, MCSAssumption DEF TargetsInv, OrderInv, TypeOK
<1>4. ObjectsOK' /\ ClustersOK' /\ ReadingOK'
      /\ UNCHANGED <<phase, fin, stat, snap, plan, view>>
  BY <1>t, <1>1, Frames DEF objects, reading
<1>5. SetsOK' /\ \A n \in MCS \ {m}, t \in Target : set'[<<n, t>>] = set[<<n, t>>]
  BY <1>t, <1>1, <1>3, TypeParts DEF SetsOK
<1>6. /\ pc' \in [MCS -> Steps] /\ todo' \in [MCS -> SUBSET Target]
      /\ pc'[m] \in {"list", "status", "check"}
      /\ \A n \in MCS \ {m} : pc'[n] = pc[n] /\ todo'[n] = todo[n]
  BY <1>t, <1>1, <1>3, CheckedTarget
<1>7. WorkOK' /\ Others(m)
  BY <1>t, <1>1, <1>4, <1>6, Constants DEF TypeOK, WorkOK, Others
<1>8. OrderInv'
  BY <1>t, <1>1, <1>4, <1>6, <1>7, OrderStep DEF OrderInv
<1>9. TargetsInv'
  BY <1>1, <1>3, <1>4, <1>7, TargetsChecked
<1>10. FinalizerInv'
  BY <1>t, <1>1, <1>4, <1>5, <1>6, <1>7 DEF FinalizerInv, Others, Bare
<1> QED
  BY <1>t, <1>2, <1>4, <1>5, <1>7, <1>8, <1>9, <1>10, TypeAfter DEF FanoutIInv, StatusAgrees

LEMMA ListInductive ==
    ASSUME FanoutIInv, NEW m \in MCS, ListClusters(m) PROVE FanoutIInv'
<1>t. TypeOK /\ OrderInv /\ FinalizerInv /\ TargetsInv /\ StatusAgrees
  BY DEF FanoutIInv
<1> DEFINE found == {c \in Cluster : Matches(snap[m], Listed[c])}
<1>1. /\ pc[m] = "list" /\ view' = [view EXCEPT ![m] = Listed]
      /\ todo' = [todo EXCEPT ![m] = found]
      /\ UNCHANGED <<objects, clusters, sets, snap, fresh, plan, aim, blocked, failed, bounds>>
  BY DEF ListClusters
<1>2. PICK step \in {"status", "check"} : pc' = [pc EXCEPT ![m] = step]
  BY DEF ListClusters, To
<1>3. found \subseteq Cluster /\ Mgmt \notin found
  BY MCSAssumption
<1> HIDE DEF found
<1>4. ReadingOK' /\ view'[m] = Listed
  BY <1>t, <1>1, ListedType, TypeParts DEF ReadingOK
<1>5. WorkOK' /\ Others(m) /\ pc'[m] = step /\ todo'[m] = found /\ blocked' = blocked
  BY <1>t, <1>1, <1>2, <1>3, Constants DEF TypeOK, WorkOK, Others, Steps
<1>6. ObjectsOK' /\ ClustersOK' /\ SetsOK' /\ BoundsOK'
      /\ UNCHANGED <<phase, fin, stat, set, rep, landed>>
  BY <1>t, <1>1, Frames DEF objects, sets
<1>7. OrderInv' /\ FinalizerInv'
  BY <1>t, <1>1, <1>5, <1>6, OrderStep, FinalizerStep DEF OrderInv
<1>8. blocked[m] \subseteq {Mgmt} /\ (Mgmt \in blocked[m] => snap[m].self)
  BY <1>t, <1>1, MCSAssumption DEF TargetsInv, Walking, Matching
<1>9. found \subseteq Matching(m)' /\ blocked[m] \subseteq Matching(m)'
  BY <1>1, <1>4, <1>8 DEF Matching, found
<1>10. ASSUME NEW n \in MCS, n # m PROVE Matching(n)' = Matching(n)
  BY <1>1, <1>5, <1>10 DEF Matching, Others
<1>11. TargetsInv'
  BY <1>t, <1>3, <1>5, <1>9, <1>10 DEF TargetsInv, Others, Walking
<1> QED
  BY <1>t, <1>4, <1>5, <1>6, <1>7, <1>11, TypeAfter DEF FanoutIInv, StatusAgrees

(* As many targets ready as matching: then they are the same, and none of  *)
(* them was found waiting.                                                 *)
LEMMA ReadyMeansAll ==
    ASSUME NEW m \in MCS, blocked[m] \subseteq Matching(m),
           Cardinality(ReadyDeployments(m)) >= Cardinality(Matching(m))
    PROVE  blocked[m] = {} /\ \A t \in Target : MatchingClusters(m)[t] \in {"none", "deployed"}
<1>1. IsFiniteSet(Target)
  BY MCSAssumption, FS_AddElement DEF Target
<1>2. Matching(m) \subseteq Target /\ ReadyDeployments(m) \subseteq Matching(m) \ blocked[m]
  BY Constants DEF Matching, ReadyDeployments
<1>3. IsFiniteSet(Matching(m))
  BY <1>1, <1>2, FS_Subset
<1>4. /\ Cardinality(ReadyDeployments(m)) \in Nat /\ Cardinality(Matching(m)) \in Nat
      /\ Cardinality(ReadyDeployments(m)) <= Cardinality(Matching(m))
  BY <1>2, <1>3, FS_Subset, FS_CardinalityType
<1>5. ReadyDeployments(m) = Matching(m)
  BY <1>2, <1>3, <1>4, FS_Subset
<1>6. blocked[m] = {}
  BY <1>2, <1>5
<1> QED
  BY <1>5, <1>6 DEF MatchingClusters, ReadyDeployments

LEMMA SetConditionsInductive ==
    ASSUME FanoutIInv, NEW m \in MCS, SetConditions(m) PROVE FanoutIInv'
<1>t. TypeOK /\ OrderInv /\ FinalizerInv /\ TargetsInv /\ StatusAgrees
  BY DEF FanoutIInv
<1> DEFINE s == [ready   |-> Cardinality(ReadyDeployments(m)) >= Cardinality(Matching(m)),
                 dep     |-> IF failed[m] THEN "Unknown"
                             ELSE IF blocked[m] # {} THEN "False" ELSE "True",
                 entries |-> MatchingClusters(m)]
<1>1. /\ pc[m] = "status" /\ stat' = (IF fresh[m] THEN [stat EXCEPT ![m] = s] ELSE stat)
      /\ Done(m) /\ UNCHANGED <<spec, phase, fin, clusters, sets, bounds>>
  BY DEF SetConditions, UpdateStatus
<1>2. s \in Status
  BY DEF Status, MatchingClusters, Entries
<1>3. ASSUME s.ready
      PROVE  (\A t \in Target : s.entries[t] \in {"none", "deployed"}) /\ s.dep # "False"
  <2>1. blocked[m] \subseteq Matching(m)
    BY <1>t, <1>1 DEF TargetsInv, Walking
  <2>2. blocked[m] = {} /\ \A t \in Target : MatchingClusters(m)[t] \in {"none", "deployed"}
    BY <1>3, <2>1, ReadyMeansAll
  <2> QED
    BY <2>2
<1> HIDE DEF s
<1>4. ObjectsOK' /\ StatusAgrees'
  <2>1. CASE fresh[m]
    <3>1. stat' = [stat EXCEPT ![m] = s]
      BY <1>1, <2>1
    <3> QED
      BY <1>t, <1>1, <1>2, <1>3, <3>1, TypeParts DEF ObjectsOK, StatusAgrees
  <2>2. CASE ~fresh[m]
    <3>1. stat' = stat
      BY <1>1, <2>2
    <3> QED
      BY <1>t, <1>1, <3>1, TypeParts DEF ObjectsOK, StatusAgrees
  <2> QED
    BY <2>1, <2>2
<1>5. ClustersOK' /\ BoundsOK'
  BY <1>t, <1>1, Frames
<1>6. /\ ReadingOK' /\ WorkOK' /\ SetsOK'
      /\ OrderInv' /\ FinalizerInv' /\ TargetsInv'
  BY <1>1, DoneStep
<1> QED
  BY <1>4, <1>5, <1>6, TypeAfter DEF FanoutIInv

-----------------------------------------------------------------------------
(* The steps of the pass that deletes                                      *)

LEMMA ValidateDeleteInductive ==
    ASSUME FanoutIInv, NEW m \in MCS, ValidateDelete(m) PROVE FanoutIInv'
<1>t. TypeOK
  BY DEF FanoutIInv
<1>1. pc[m] = "validateDelete" /\ UNCHANGED <<objects, clusters, sets, bounds>>
  BY DEF ValidateDelete
<1>2. ObjectsOK' /\ ClustersOK' /\ SetsOK' /\ BoundsOK'
      /\ UNCHANGED <<phase, fin, stat, set, rep, landed>>
  BY <1>t, <1>1, Frames DEF objects, sets
<1>3. CASE Dependents(m) = {}
  <2>1. To(m, "deleteSets") /\ UNCHANGED <<reading, todo, aim, blocked, failed>>
    BY <1>3 DEF ValidateDelete
  <2>2. todo' \in [MCS -> SUBSET Target]
    BY <1>t, <2>1 DEF TypeOK
  <2>3. "deleteSets" \in Steps \ Walking /\ pc[m] \notin Walking
    BY <1>1 DEF Steps, Walking
  <2>4. /\ WorkOK' /\ ReadingOK'
        /\ OrderInv' /\ FinalizerInv' /\ TargetsInv' /\ StatusAgrees'
    BY <1>1, <1>2, <2>1, <2>2, <2>3, QuietStep
  <2> QED
    BY <1>2, <2>4, TypeAfter DEF FanoutIInv
<1>4. CASE Dependents(m) # {}
  <2>1. Done(m)
    BY <1>4 DEF ValidateDelete
  <2> QED
    BY <1>1, <1>2, <2>1, EndInductive
<1> QED
  BY <1>3, <1>4

(* The pass goes on to the finalizer when it has listed no ServiceSet, and *)
(* nobody makes one for this object while its pass is here.                *)
LEMMA DeleteSetsInductive ==
    ASSUME FanoutIInv, NEW m \in MCS, DeleteServiceSets(m) PROVE FanoutIInv'
<1>t. TypeOK /\ OrderInv /\ FinalizerInv /\ TargetsInv /\ StatusAgrees
  BY DEF FanoutIInv
<1>1. /\ pc[m] = "deleteSets"
      /\ UNCHANGED <<objects, clusters, set, rep, landed, upgrades>>
      /\ UNCHANGED faults \/ Disturb
  BY DEF DeleteServiceSets
<1>2. PICK lost : del' = [x \in MCS \X Target |->
                            del[x] \/ (x[1] = m /\ set[x] # 0 /\ x[2] \notin lost)]
  BY DEF DeleteServiceSets
<1>3. SetsOK'
  BY <1>t, <1>1, <1>2, TypeParts, Zenon DEF SetsOK
<1>4. ObjectsOK' /\ ClustersOK' /\ BoundsOK' /\ UNCHANGED <<phase, fin, stat>>
  BY <1>t, <1>1, Frames, DisturbType DEF objects, bounds
<1>5. CASE Done(m)
  <2>1. ReadingOK' /\ WorkOK' /\ Others(m) /\ pc'[m] = "idle" /\ blocked'[m] = {}
    BY <1>t, <1>5, DoneType
  <2>2. pc'[m] \notin Walking
    BY <2>1 DEF Walking
  <2>3. OrderInv' /\ FinalizerInv' /\ TargetsInv'
    BY <1>1, <1>4, <2>1, <2>2, OrderStep, FinalizerStep, TargetsStep
  <2> QED
    BY <1>t, <1>3, <1>4, <2>1, <2>3, TypeAfter DEF FanoutIInv, StatusAgrees
<1>6. CASE /\ Placed(m) = {} /\ To(m, "finalizer")
           /\ UNCHANGED <<reading, todo, aim, blocked, failed>>
  <2>1. Bare(m)
    BY <1>6 DEF Placed, Bare
  <2>2. ReadingOK' /\ UNCHANGED <<snap, plan, view>>
    BY <1>t, <1>6, Frames DEF reading
  <2>3. WorkOK' /\ Others(m) /\ pc'[m] = "finalizer"
    BY <1>t, <1>6, <2>2 DEF TypeOK, WorkOK, Others, To, Steps
  <2>4. pc'[m] \notin Walking /\ blocked'[m] = {} /\ snap'[m] \in Specs
    BY <1>t, <1>1, <1>6, <2>2, <2>3 DEF TargetsInv, OrderInv, Walking
  <2>5. OrderInv' /\ TargetsInv'
    BY <1>1, <2>3, <2>4, OrderStep, TargetsStep
  <2>6. FinalizerInv'
    BY <1>t, <1>1, <1>4, <2>1, <2>3 DEF FinalizerInv, Others, Bare
  <2> QED
    BY <1>t, <1>3, <1>4, <2>2, <2>3, <2>5, <2>6, TypeAfter DEF FanoutIInv, StatusAgrees
<1> QED
  BY <1>5, <1>6 DEF DeleteServiceSets

LEMMA RemoveFinalizerInductive ==
    ASSUME FanoutIInv, NEW m \in MCS, RemoveFinalizer(m) PROVE FanoutIInv'
<1>t. TypeOK /\ OrderInv /\ FinalizerInv /\ TargetsInv /\ StatusAgrees
  BY DEF FanoutIInv
<1>1. /\ pc[m] = "finalizer" /\ Done(m) /\ UNCHANGED <<spec, stat, clusters, sets, bounds>>
      /\ \/ fin' = [fin EXCEPT ![m] = FALSE] /\ phase' = [phase EXCEPT ![m] = "gone"]
         \/ UNCHANGED <<fin, phase>>
  BY DEF RemoveFinalizer
<1>2. ReadingOK' /\ WorkOK' /\ Others(m) /\ pc'[m] = "idle" /\ blocked'[m] = {}
  BY <1>t, <1>1, DoneType
<1>3. ClustersOK' /\ SetsOK' /\ BoundsOK' /\ UNCHANGED <<set, rep, landed>>
  BY <1>t, <1>1, Frames DEF sets
<1>4. ObjectsOK' /\ StatusAgrees'
  BY <1>t, <1>1, TypeParts DEF ObjectsOK, StatusAgrees
<1>5. pc'[m] \notin Walking
  BY <1>2 DEF Walking
<1>6. OrderInv' /\ TargetsInv'
  BY <1>2, <1>3, <1>5, OrderStep, TargetsStep
<1>7. FinalizerInv'
  BY <1>t, <1>1, <1>2, <1>3, TypeParts DEF FinalizerInv, Others, Bare, ObjectsOK
<1> QED
  BY <1>2, <1>3, <1>4, <1>6, <1>7, TypeAfter DEF FanoutIInv

-----------------------------------------------------------------------------
(* Users, the ClusterDeployment controller and the adapter                 *)

LEMMA EditInductive ==
    ASSUME FanoutIInv, NEW m \in MCS, NEW s \in Specs, EditSpec(m, s), BoundsOK' PROVE FanoutIInv'
<1>t. TypeOK /\ OrderInv /\ FinalizerInv /\ TargetsInv /\ StatusAgrees
  BY DEF FanoutIInv
<1>1. /\ spec' = [spec EXCEPT ![m] = s] /\ fresh' = [fresh EXCEPT ![m] = FALSE]
      /\ UNCHANGED <<phase, fin, stat, clusters, sets, pc, snap, plan, view, todo, aim,
                     blocked, failed>>
  BY DEF EditSpec, Touch
<1>2. ObjectsOK' /\ ReadingOK' /\ WorkOK'
  BY <1>t, <1>1, TypeParts DEF ObjectsOK, ReadingOK, WorkOK
<1>3. ClustersOK' /\ SetsOK' /\ UNCHANGED <<set, rep, landed>>
  BY <1>t, <1>1, Frames DEF sets
<1>4. OrderInv' /\ TargetsInv'
  BY <1>1, <1>3, PassesStay
<1>5. FinalizerInv' /\ StatusAgrees'
  BY <1>t, <1>1, <1>3 DEF FinalizerInv, Bare, StatusAgrees
<1> QED
  BY <1>2, <1>3, <1>4, <1>5, TypeAfter DEF FanoutIInv

LEMMA UpgradeInductive ==
    ASSUME FanoutIInv, NEW m \in MCS, Upgrade(m) PROVE FanoutIInv'
<1>t. TypeOK
  BY DEF FanoutIInv
<1>1. spec[m] \in Specs /\ spec[m].version < MaxVersion
  BY <1>t DEF TypeOK, Upgrade
<1>2. [spec[m] EXCEPT !.version = @ + 1] \in Specs
  BY <1>1, MCSAssumption DEF Specs, Version
<1>3. BoundsOK'
  BY <1>t, MCSAssumption DEF TypeOK, Upgrade, BoundsOK
<1> QED
  BY <1>2, <1>3, EditInductive DEF Upgrade

LEMMA UserEditInductive ==
    ASSUME FanoutIInv, NEW m \in MCS, UserEdit(m) PROVE FanoutIInv'
<1>t. TypeOK
  BY DEF FanoutIInv
<1>1. BoundsOK'
  BY <1>t, DisturbType DEF UserEdit
<1>2. spec[m] \in Specs
  BY <1>t DEF TypeOK
<1>3. \A l \in Label \union {NoSelector} : [spec[m] EXCEPT !.sel = l] \in Specs
  BY <1>2 DEF Specs
<1>4. ASSUME NEW d \in MCS
      PROVE  [spec[m] EXCEPT !.deps = IF d \in @ THEN @ \ {d} ELSE @ \union {d}] \in Specs
  BY <1>2 DEF Specs
<1>5. [spec[m] EXCEPT !.self = ~@] \in Specs /\ [spec[m] EXCEPT !.ok = ~@] \in Specs
  BY <1>2 DEF Specs
<1>6. PICK s \in Specs : EditSpec(m, s)
  BY <1>3, <1>4, <1>5 DEF UserEdit
<1> QED
  BY <1>1, <1>6, EditInductive

LEMMA UserDeleteInductive ==
    ASSUME FanoutIInv, NEW m \in MCS, UserDelete(m) PROVE FanoutIInv'
<1>t. TypeOK /\ OrderInv /\ FinalizerInv /\ TargetsInv /\ StatusAgrees
  BY DEF FanoutIInv
<1>1. /\ phase[m] = "live" /\ fresh' = [fresh EXCEPT ![m] = FALSE]
      /\ phase' = [phase EXCEPT ![m] = IF fin[m] THEN "deleting" ELSE "gone"]
      /\ UNCHANGED <<spec, fin, stat, clusters, sets, pc, snap, plan, view, todo, aim,
                     blocked, failed>>
  BY DEF UserDelete, Touch
<1>2. BoundsOK'
  BY <1>t, DisturbType DEF UserDelete
<1>3. ObjectsOK' /\ ReadingOK' /\ WorkOK'
  BY <1>t, <1>1, TypeParts DEF ObjectsOK, ReadingOK, WorkOK
<1>4. ClustersOK' /\ SetsOK' /\ UNCHANGED <<set, rep, landed>>
  BY <1>t, <1>1, Frames DEF sets
<1>5. OrderInv' /\ TargetsInv'
  BY <1>1, <1>4, PassesStay
<1>6. FinalizerInv' /\ StatusAgrees'
  BY <1>t, <1>1, <1>4, TypeParts DEF FinalizerInv, Bare, StatusAgrees, ObjectsOK
<1> QED
  BY <1>2, <1>3, <1>4, <1>5, <1>6, TypeAfter DEF FanoutIInv

(* A change of the ClusterDeployments or of the ServiceSets that makes no  *)
(* ServiceSet.                                                             *)
LEMMA OutsideInductive ==
    ASSUME FanoutIInv, UNCHANGED <<objects, pass>>, ClustersOK', SetsOK', BoundsOK',
           landed \subseteq landed',
           \A m \in MCS, t \in Target :
               /\ \/ rep'[<<m, t>>] = rep[<<m, t>>]
                  \/ rep'[<<m, t>>] = 0
                  \/ <<m, t, rep'[<<m, t>>]>> \in landed'
               /\ set[<<m, t>>] = 0 => set'[<<m, t>>] = 0
    PROVE  FanoutIInv'
<1>t. TypeOK /\ OrderInv /\ FinalizerInv /\ TargetsInv /\ StatusAgrees
  BY DEF FanoutIInv
<1>1. UNCHANGED <<phase, fin, stat, pc, snap, plan, view, todo, aim, blocked>>
  BY DEF objects, pass, reading
<1>2. ObjectsOK' /\ ReadingOK' /\ WorkOK'
  BY <1>t, Frames, TypeParts DEF pass, WorkOK
<1>3. OrderInv' /\ TargetsInv'
  BY <1>1, PassesStay
<1>4. FinalizerInv' /\ StatusAgrees'
  BY <1>t, <1>1 DEF FinalizerInv, Bare, StatusAgrees
<1> QED
  BY <1>2, <1>3, <1>4, TypeAfter DEF FanoutIInv

LEMMA ClustersInductive ==
    ASSUME FanoutIInv, NEW c \in Cluster,
           Relabel(c) \/ ClusterDelete(c) \/ ClusterDeleteServiceSets(c) \/ ClusterGone(c)
    PROVE  FanoutIInv'
<1>t. TypeOK
  BY DEF FanoutIInv
<1>1. UNCHANGED <<objects, pass, set, rep, landed>>
  BY DEF Relabel, ClusterDelete, ClusterDeleteServiceSets, ClusterGone, sets
<1>2. BoundsOK'
  BY <1>t, Frames, DisturbType DEF Relabel, ClusterDelete, ClusterDeleteServiceSets, ClusterGone
<1>3. ClustersOK'
  BY <1>t, TypeParts
     DEF Relabel, ClusterDelete, ClusterDeleteServiceSets, ClusterGone, ClustersOK, clusters
<1>4. SetsOK'
  <2>1. CASE ClusterDeleteServiceSets(c)
    <3>1. del' = [x \in MCS \X Target |-> del[x] \/ (x[2] = c /\ set[x] # 0)]
      BY <2>1 DEF ClusterDeleteServiceSets
    <3>2. del' \in [MCS \X Target -> BOOLEAN]
      BY <1>t, <3>1, Zenon DEF TypeOK
    <3> QED
      BY <1>t, <1>1, <3>2, TypeParts DEF SetsOK
  <2>2. CASE Relabel(c) \/ ClusterDelete(c) \/ ClusterGone(c)
    BY <1>t, <2>2, Frames DEF Relabel, ClusterDelete, ClusterGone
  <2> QED
    BY <2>1, <2>2
<1> QED
  BY <1>1, <1>2, <1>3, <1>4, OutsideInductive

LEMMA AdapterInductive ==
    ASSUME FanoutIInv, NEW m \in MCS, NEW t \in Target,
           AdapterDeploys(m, t) \/ AdapterLoses(m, t) \/ AdapterUndeploys(m, t)
    PROVE  FanoutIInv'
<1>t. TypeOK /\ OrderInv
  BY DEF FanoutIInv
<1>0. <<m, t>> \in MCS \X Target
  OBVIOUS
<1>1. UNCHANGED <<objects, clusters, pass>> /\ ClustersOK'
  BY <1>t, Frames DEF AdapterDeploys, AdapterLoses, AdapterUndeploys
<1>2. BoundsOK'
  BY <1>t, Frames, DisturbType DEF AdapterDeploys, AdapterLoses, AdapterUndeploys
<1>3. /\ SetsOK' /\ landed \subseteq landed'
      /\ \A n \in MCS, u \in Target :
            /\ \/ rep'[<<n, u>>] = rep[<<n, u>>]
               \/ rep'[<<n, u>>] = 0
               \/ <<n, u, rep'[<<n, u>>]>> \in landed'
            /\ set[<<n, u>>] = 0 => set'[<<n, u>>] = 0
  <2>1. CASE AdapterDeploys(m, t)
    <3>1. /\ set[<<m, t>>] # 0 /\ rep' = [rep EXCEPT ![<<m, t>>] = set[<<m, t>>]]
          /\ landed' = landed \union {<<m, t, set[<<m, t>>]>>} /\ UNCHANGED <<set, del>>
      BY <2>1 DEF AdapterDeploys
    <3>2. set[<<m, t>>] \in Version
      BY <1>t, <1>0, <3>1, MCSAssumption DEF TypeOK, Version
    <3>3. SetsOK'
      BY <1>t, <1>0, <3>1, <3>2, TypeParts DEF SetsOK
    <3>4. ASSUME NEW n \in MCS, NEW u \in Target
          PROVE  rep'[<<n, u>>] = rep[<<n, u>>] \/ <<n, u, rep'[<<n, u>>]>> \in landed'
      <4>1. CASE <<n, u>> = <<m, t>>
        <5>1. rep'[<<m, t>>] = set[<<m, t>>]
          BY <1>t, <1>0, <3>1 DEF TypeOK
        <5> QED
          BY <3>1, <4>1, <5>1
      <4>2. CASE <<n, u>> # <<m, t>>
        BY <1>t, <3>1, <4>2 DEF TypeOK
      <4> QED
        BY <4>1, <4>2
    <3> QED
      BY <3>1, <3>3, <3>4
  <2>2. CASE AdapterLoses(m, t)
    <3>1. rep' = [rep EXCEPT ![<<m, t>>] = 0] /\ UNCHANGED <<set, del, landed>>
      BY <2>2 DEF AdapterLoses
    <3>2. SetsOK'
      BY <1>t, <3>1, MCSAssumption, TypeParts DEF SetsOK
    <3> QED
      BY <1>t, <3>1, <3>2 DEF TypeOK
  <2>3. CASE AdapterUndeploys(m, t)
    <3>1. /\ rep' = [rep EXCEPT ![<<m, t>>] = 0] /\ set' = [set EXCEPT ![<<m, t>>] = 0]
          /\ del' = [del EXCEPT ![<<m, t>>] = FALSE] /\ UNCHANGED landed
      BY <2>3 DEF AdapterUndeploys
    <3>2. SetsOK'
      BY <1>t, <3>1, MCSAssumption, TypeParts DEF SetsOK
    <3> QED
      BY <1>t, <3>1, <3>2 DEF TypeOK
  <2> QED
    BY <2>1, <2>2, <2>3
<1> QED
  BY <1>1, <1>2, <1>3, OutsideInductive

-----------------------------------------------------------------------------
LEMMA InitIInv == Init => FanoutIInv
<1> SUFFICES ASSUME Init PROVE FanoutIInv
  OBVIOUS
<1>1. ObjectsOK /\ ClustersOK
  BY MCSAssumption DEF Init, ObjectsOK, ClustersOK, Status, Entries
<1>2. SetsOK /\ BoundsOK
  BY MCSAssumption DEF Init, SetsOK, BoundsOK
<1>3. ReadingOK /\ WorkOK
  BY Constants DEF Init, ReadingOK, WorkOK, Steps
<1>4. OrderInv /\ TargetsInv
  BY DEF Init, OrderInv, TargetsInv, Walking
<1>5. FinalizerInv /\ StatusAgrees
  BY DEF Init, FinalizerInv, Bare, StatusAgrees
<1> QED
  BY <1>1, <1>2, <1>3, <1>4, <1>5, TypeParts DEF FanoutIInv

LEMMA StutterInductive == FanoutIInv /\ UNCHANGED vars => FanoutIInv'
<1> SUFFICES ASSUME FanoutIInv, UNCHANGED vars PROVE FanoutIInv'
  OBVIOUS
<1>t. TypeOK
  BY DEF FanoutIInv
<1>1. UNCHANGED <<objects, clusters, sets, pass, bounds>> /\ UNCHANGED <<set, rep, landed>>
  BY DEF vars, sets
<1> QED
  BY <1>t, <1>1, Frames, OutsideInductive

LEMMA StepInductive == FanoutIInv /\ [Next]_vars => FanoutIInv'
<1> SUFFICES ASSUME FanoutIInv, Next PROVE FanoutIInv'
  BY StutterInductive
<1>1. ASSUME NEW m \in MCS, Step(m) PROVE FanoutIInv'
  <2>1. ASSUME NEW t \in Target, CleanupServiceSet(m, t) \/ CleanupFails(m, t) \/ Check(m, t)
        PROVE  FanoutIInv'
    BY <2>1, CleanupInductive, FailsInductive, ChecksInductive
  <2>2. CASE Reconcile(m) \/ Validate(m) \/ ResolveDependencies(m)
    BY <2>2, ReconcileInductive, ValidateInductive, ResolveInductive
  <2>3. CASE CreateOrUpdateServiceSet(m) \/ ListClusters(m) \/ SetConditions(m)
    BY <2>3, WriteInductive, ListInductive, SetConditionsInductive
  <2>4. CASE ValidateDelete(m) \/ DeleteServiceSets(m) \/ RemoveFinalizer(m)
    BY <2>4, ValidateDeleteInductive, DeleteSetsInductive, RemoveFinalizerInductive
  <2> QED
    BY <1>1, <2>1, <2>2, <2>3, <2>4 DEF Step
<1>2. ASSUME NEW m \in MCS,
             PassFails(m) \/ WriteFails(m) \/ Upgrade(m) \/ UserEdit(m) \/ UserDelete(m)
      PROVE  FanoutIInv'
  BY <1>2, FailsInductive, WriteInductive, UpgradeInductive, UserEditInductive,
     UserDeleteInductive
<1>3. ASSUME NEW m \in MCS, NEW t \in Target,
             CheckFails(m, t) \/ AdapterDeploys(m, t) \/ AdapterLoses(m, t) \/ AdapterUndeploys(m, t)
      PROVE  FanoutIInv'
  BY <1>3, ChecksInductive, AdapterInductive
<1> QED
  BY <1>1, <1>2, <1>3, ClustersInductive DEF Next

(* Whatever the passes of the other objects, the users and the other       *)
(* controllers do between two calls of Reconcile and reconcileDelete, an   *)
(* object that is gone leaves no ServiceSet behind, and a status that      *)
(* counts every cluster as ready lists none that waits.  By the time the   *)
(* finalizer is removed there is no ServiceSet, because none is made by    *)
(* a pass that deletes and each object has one pass at a time.             *)
THEOREM FanoutSafe == Spec => []FanoutInv
<1>1. FanoutIInv => FanoutInv
  <2> SUFFICES ASSUME FanoutIInv PROVE NoSetOutlivesIt
    BY DEF FanoutInv, FanoutIInv
  <2> QED
    BY DEF FanoutIInv, FinalizerInv, NoSetOutlivesIt, Exists, Bare, Placed
<1> QED
  BY <1>1, InitIInv, StepInductive, PTL DEF Spec

-----------------------------------------------------------------------------
(* The controller implements OrderedRollout                                *)

LEMMA StartsInOrder == Init => Rollout!Init
BY DEF Init, Rollout!Init, Rollout!NoPlan, NoSpecs

(* Most steps touch nothing the promise is about.                          *)
LEMMA ChangeInOrder == UNCHANGED <<snap, plan, view, set, landed>> => Rollout!Next
BY DEF Rollout!Next, Rollout!Change

LEMMA DoneInOrder ==
    ASSUME TypeOK, NEW m \in MCS, Done(m), UNCHANGED <<clusters, set, landed>>
    PROVE  Rollout!Next
<1>1. /\ snap' = [snap EXCEPT ![m] = NoSpec] /\ plan' = [plan EXCEPT ![m] = NoSpecs]
      /\ \A n \in MCS \ {m} : view'[n] = view[n]
  BY DEF Done, TypeOK
<1>2. Listed' = Listed
  BY DEF Listed, clusters
<1>3. Rollout!Forget(m)
  BY <1>1, <1>2 DEF Rollout!Forget, Rollout!NoPlan, NoSpecs
<1> QED
  BY <1>3 DEF Rollout!Next

LEMMA ReadInOrder ==
    ASSUME TypeOK, NEW m \in MCS, Reconcile(m)
    PROVE  Rollout!Next
<1>1. /\ Exists(m) /\ snap' = [snap EXCEPT ![m] = spec[m]] /\ plan' = [plan EXCEPT ![m] = NoSpecs]
      /\ UNCHANGED <<spec, phase, clusters, view, set, landed>>
  BY DEF Reconcile, sets
<1>2. spec[m] # NoSpec
  BY Constants DEF TypeOK
<1>3. Listed' = Listed
  BY <1>1 DEF Listed, clusters
<1>4. Rollout!Read(m)
  BY <1>1, <1>2, <1>3 DEF Rollout!Read, Rollout!NoPlan, NoSpecs, Exists
<1> QED
  BY <1>4 DEF Rollout!Next

LEMMA PlanInOrder ==
    ASSUME FanoutIInv, NEW m \in MCS, ResolveDependencies(m)
    PROVE  Rollout!Next
<1>1. /\ pc[m] = "resolve"
      /\ plan' = [plan EXCEPT ![m] = [d \in MCS |->
                     IF d \in snap[m].deps /\ Exists(d) THEN spec[d] ELSE NoSpec]]
      /\ UNCHANGED <<spec, phase, clusters, snap, view, set, landed>>
  BY DEF ResolveDependencies, sets, objects
<1>2. snap[m] # NoSpec
  BY <1>1, Constants DEF FanoutIInv, OrderInv
<1>3. Listed' = Listed
  BY <1>1 DEF Listed, clusters
<1>4. [d \in MCS |-> IF d \in snap[m].deps /\ Exists(d) THEN spec[d] ELSE NoSpec]
      = [d \in MCS |-> IF d \in snap[m].deps
                       THEN [n \in MCS |-> IF Exists(n) THEN spec[n] ELSE NoSpec][d]
                       ELSE NoSpec]
  OBVIOUS
<1>5. Rollout!Plan(m)
  BY <1>1, <1>2, <1>3, <1>4 DEF Rollout!Plan, Exists
<1> QED
  BY <1>5 DEF Rollout!Next

LEMMA LookInOrder ==
    ASSUME NEW m \in MCS, ListClusters(m)
    PROVE  Rollout!Next
<1>1. /\ view' = [view EXCEPT ![m] = Listed]
      /\ UNCHANGED <<spec, phase, clusters, snap, plan, set, landed>>
  BY DEF ListClusters, sets, objects
<1>2. Listed' = Listed
  BY <1>1 DEF Listed, clusters
<1>3. Rollout!Look(m)
  BY <1>1, <1>2 DEF Rollout!Look, Exists
<1> QED
  BY <1>3 DEF Rollout!Next

(* The step the promise is about: the target was cleared, and is still.    *)
LEMMA PlaceInOrder ==
    ASSUME FanoutIInv, NEW m \in MCS, CreateOrUpdateServiceSet(m)
    PROVE  Rollout!Next
<1>1. /\ pc[m] = "write" /\ set' = [set EXCEPT ![<<m, aim[m]>>] = snap[m].version]
      /\ UNCHANGED <<spec, phase, clusters, snap, plan, view, landed>>
  BY DEF CreateOrUpdateServiceSet, objects, reading
<1>2. snap[m] # NoSpec /\ Cleared(m, aim[m]) /\ aim[m] \in Target
  BY <1>1, Constants DEF FanoutIInv, OrderInv, TypeOK
<1>3. Listed' = Listed
  BY <1>1 DEF Listed, clusters
<1>4. Rollout!Place(m, aim[m])
  BY <1>1, <1>2, <1>3 DEF Rollout!Place, Cleared, Exists
<1> QED
  BY <1>2, <1>4 DEF Rollout!Next

LEMMA AdapterInOrder ==
    ASSUME NEW m \in MCS, NEW t \in Target, AdapterDeploys(m, t) \/ AdapterUndeploys(m, t)
    PROVE  Rollout!Next
<1>1. UNCHANGED <<spec, phase, clusters, snap, plan, view>>
  BY DEF AdapterDeploys, AdapterUndeploys, objects, pass, reading
<1>2. Listed' = Listed
  BY <1>1 DEF Listed, clusters
<1>3. Rollout!Land(m, t) \/ Rollout!Withdraw(m, t)
  BY <1>1, <1>2 DEF Rollout!Land, Rollout!Withdraw, AdapterDeploys, AdapterUndeploys, Exists
<1> QED
  BY <1>3 DEF Rollout!Next

LEMMA StepInOrder == FanoutIInv /\ [Next]_vars => Rollout!Next
<1> SUFFICES ASSUME FanoutIInv, [Next]_vars PROVE Rollout!Next
  OBVIOUS
<1>t. TypeOK
  BY DEF FanoutIInv
<1>1. ASSUME NEW m \in MCS, Step(m) PROVE Rollout!Next
  <2>1. ASSUME NEW t \in Target, CleanupServiceSet(m, t) \/ CleanupFails(m, t) \/ Check(m, t)
        PROVE  Rollout!Next
    <3>1. CASE CleanupServiceSet(m, t) \/ Check(m, t)
      BY <3>1, ChangeInOrder DEF CleanupServiceSet, Check, OkToReconcileServiceSet, reading, sets
    <3>2. CASE CleanupFails(m, t)
      BY <1>t, <3>2, DoneInOrder DEF CleanupFails, sets
    <3> QED
      BY <2>1, <3>1, <3>2
  <2>2. CASE Reconcile(m) \/ ResolveDependencies(m)
    BY <1>t, <2>2, ReadInOrder, PlanInOrder
  <2>3. CASE CreateOrUpdateServiceSet(m) \/ ListClusters(m)
    BY <2>3, PlaceInOrder, LookInOrder
  <2>4. CASE SetConditions(m) \/ RemoveFinalizer(m)
    BY <1>t, <2>4, DoneInOrder DEF SetConditions, RemoveFinalizer, sets
  <2>5. CASE Validate(m) \/ ValidateDelete(m) \/ DeleteServiceSets(m)
    <3>1. UNCHANGED <<clusters, set, landed>>
      BY <2>5 DEF Validate, ValidateDelete, DeleteServiceSets, sets
    <3>2. Done(m) \/ UNCHANGED reading
      BY <2>5 DEF Validate, ValidateDelete, DeleteServiceSets
    <3> QED
      BY <1>t, <3>1, <3>2, DoneInOrder, ChangeInOrder DEF reading
  <2> QED
    BY <1>1, <2>1, <2>2, <2>3, <2>4, <2>5 DEF Step
<1>2. ASSUME NEW m \in MCS, PassFails(m) PROVE Rollout!Next
  BY <1>t, <1>2, DoneInOrder DEF PassFails, sets
<1>3. ASSUME NEW m \in MCS, WriteFails(m) PROVE Rollout!Next
  BY <1>3, ChangeInOrder DEF WriteFails, reading, sets
<1>4. ASSUME NEW m \in MCS, Upgrade(m) \/ UserEdit(m) \/ UserDelete(m) PROVE Rollout!Next
  BY <1>4, ChangeInOrder DEF Upgrade, UserEdit, UserDelete, EditSpec, sets
<1>5. ASSUME NEW m \in MCS, NEW t \in Target,
             \/ CheckFails(m, t) \/ AdapterDeploys(m, t)
             \/ AdapterLoses(m, t) \/ AdapterUndeploys(m, t)
      PROVE  Rollout!Next
  <2>1. CASE CheckFails(m, t)
    BY <2>1, ChangeInOrder DEF CheckFails, OkToReconcileServiceSet, reading, sets
  <2>2. CASE AdapterLoses(m, t)
    BY <2>2, ChangeInOrder DEF AdapterLoses, pass, reading
  <2> QED
    BY <1>5, <2>1, <2>2, AdapterInOrder
<1>6. ASSUME NEW c \in Cluster, Relabel(c) \/ ClusterDelete(c)
                                \/ ClusterDeleteServiceSets(c) \/ ClusterGone(c)
      PROVE  Rollout!Next
  BY <1>6, ChangeInOrder
     DEF Relabel, ClusterDelete, ClusterDeleteServiceSets, ClusterGone, pass, reading, sets
<1>7. CASE UNCHANGED vars
  BY <1>7, ChangeInOrder DEF vars, pass, reading, sets
<1> QED
  BY <1>1, <1>2, <1>3, <1>4, <1>5, <1>6, <1>7 DEF Next

(* The order of spec.dependsOn: createOrUpdateServiceSet writes a target   *)
(* only when every dependency aimed at it has landed there at the version  *)
(* wanted of it, as read by resolveDependencies after the object itself.   *)
(* What okToReconcileServiceSet found is used after other passes, users    *)
(* and the adapter have moved; Cleared survives them all, because a read   *)
(* is forgotten only by its own pass and a version that has landed has.    *)
THEOREM RollsOutInOrder == Spec => InOrder
<1>1. FanoutIInv /\ [Next]_vars => [Rollout!Next]_(Rollout!vars)
  BY StepInOrder
<1> QED
  BY <1>1, StartsInOrder, InitIInv, StepInductive, PTL DEF Spec, InOrder, Rollout!Spec

=============================================================================
