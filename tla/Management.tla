----------------------------- MODULE Management -----------------------------
(***************************************************************************)
(* Releases, the Management object and the Regions.  A Release brings the  *)
(* templates of one version; the Management object, and each Region on its *)
(* own cluster, installs the components (kcm, then CAPI, then providers)   *)
(* by HelmReleases that Flux installs.  An upgrade is a new release in the *)
(* spec of the Management object; it waits for the backups that are to be  *)
(* made before.                                                            *)
(*                                                                         *)
(* The Management and the Region controllers share the engine in           *)
(* components/, so one pass is modelled for both; it is a sequence of API  *)
(* calls, and users, Flux, velero and the other controllers move between   *)
(* two of them.  An object is reconciled when its key is in the queue.     *)
(***************************************************************************)
EXTENDS Integers, FiniteSets, Sequences

CONSTANTS
    Mgmt,        \* name of the Management object
    Region,      \* names of Regions
    Provider,    \* names of providers
    Sveltos,     \* the provider that two controllers wait for
    Backup,      \* ManagementBackups with performOnManagementUpgrade
    MaxRelease,  \* Releases are 1 .. MaxRelease, the first one is installed first
    MaxChanges,  \* bound on what users do and on faults together
    MaxFaults    \* bound on failed calls, restarts and broken components

ASSUME ManagementAssumption ==
    /\ Mgmt \notin Region
    /\ Sveltos \in Provider
    /\ IsFiniteSet(Provider) /\ Provider \cap {"kcm", "capi"} = {}
    /\ MaxRelease \in Nat \ {0} /\ MaxChanges \in Nat /\ MaxFaults \in Nat

Owner   == {Mgmt} \union Region
Core    == <<"kcm", "capi">>
Comp    == {"kcm", "capi"} \union Provider
Release == 1 .. MaxRelease

VARIABLES
    rel, chart, tpl,      \* Release objects, their chart, ProviderTemplates
    boot, built,          \* initial request, release the process is built for
    rqueue,               \* Releases to be reconciled
    want,                 \* spec.release of the Management object
    prov, gen,            \* spec.providers and generation
    phase, fin, stat,     \* absent, live, deleting or gone; finalizer; status
    hr, inst, del,        \* HelmReleases: release of the chart, installed, deleted?
    mb,                   \* backups of a release
    made, started,        \* objects created, controllers started
    queue,                \* keys to be reconciled
    pc, snap, fresh,      \* a pass: next call, what it read, is that current?
    todo, ok, err, again  \* components left and succeeded, errors, requeue

VARIABLES
    landed,               \* history: <<owner, component, release>> installed
    back,                 \* history: the spec has gone back to an older release
    edits, faults

releases == <<rel, chart, tpl, boot, built, rqueue>>
objects  == <<want, back, prov, gen, phase, fin, stat>>
helm     == <<hr, inst, del, landed>>
process  == <<mb, made, started>>
pass     == <<pc, snap, fresh, todo, ok, err, again>>
bounds   == <<edits, faults>>
vars     == <<releases, objects, helm, process, queue, pass, bounds>>

Status == [release : 0 .. MaxRelease, ok : SUBSET Comp, listed : SUBSET Comp,
           ready : BOOLEAN, obs : 0 .. MaxChanges + 1]
NoStatus == [release |-> 0, ok |-> {}, listed |-> {}, ready |-> FALSE, obs |-> 0]
Snaps  == [release : 0 .. MaxRelease, prov : SUBSET Provider]
NoSnap == [release |-> 0, prov |-> {}]

Live(o)      == phase[o] = "live"
Exists(o)    == phase[o] \in {"live", "deleting"}
Placed(o)    == {c \in Comp : hr[<<o, c>>] # 0}
To(o, step)  == pc' = [pc EXCEPT ![o] = step]
Fault        == faults < MaxFaults /\ edits + faults < MaxChanges /\ faults' = faults + 1
Edit         == edits + faults < MaxChanges /\ edits' = edits + 1

Init ==
    /\ rel = [r \in Release |-> "absent"]
    /\ chart = [r \in Release |-> "none"]
    /\ tpl = [r \in Release |-> "none"]
    /\ boot = TRUE
    /\ built = 1
    /\ rqueue = {}
    /\ want = 0
    /\ back = FALSE
    /\ prov = [o \in Owner |-> {}]
    /\ gen = [o \in Owner |-> 0]
    /\ phase = [o \in Owner |-> "absent"]
    /\ fin = [o \in Owner |-> FALSE]
    /\ stat = [o \in Owner |-> NoStatus]
    /\ hr = [x \in Owner \X Comp |-> 0]
    /\ inst = [x \in Owner \X Comp |-> 0]
    /\ del = [x \in Owner \X Comp |-> FALSE]
    /\ landed = {}
    /\ mb = [x \in Backup \X Release |-> "none"]
    /\ made = {}
    /\ started = FALSE
    /\ queue = {}
    /\ pc = [o \in Owner |-> "idle"]
    /\ snap = [o \in Owner |-> NoSnap]
    /\ fresh = [o \in Owner |-> FALSE]
    /\ todo = [o \in Owner |-> << >>]
    /\ ok = [o \in Owner |-> {}]
    /\ err = [o \in Owner |-> FALSE]
    /\ again = [o \in Owner |-> FALSE]
    /\ edits = 0
    /\ faults = 0

-----------------------------------------------------------------------------
(* The Release controller *)

(* reconcileKCMTemplates: the chart of templates is written, by the        *)
(* initial request or for a Release, and waited for.                       *)
ReconcileKCMTemplates(r) ==
    /\ r \in rqueue \/ (boot /\ r = built)
    /\ phase[Mgmt] \notin {"deleting", "gone"}
    /\ chart[r] = "none"
    /\ chart' = [chart EXCEPT ![r] = "pending"]
    /\ UNCHANGED <<rel, tpl, boot, built, rqueue, objects, helm, process, queue, pass, bounds>>

(* Reconcile does nothing while the Management object is being deleted.    *)
SkipRelease(r) ==
    /\ r \in rqueue /\ phase[Mgmt] = "deleting"
    /\ rqueue' = rqueue \ {r}
    /\ UNCHANGED <<rel, chart, tpl, boot, built, objects, helm, process, queue, pass, bounds>>

(* ensureManagement, by the initial request, once the chart is installed.  *)
(* A system that is deleted stays deleted: the model ends there.           *)
EnsureManagement ==
    /\ boot /\ chart[built] = "installed"
    /\ boot' = FALSE
    /\ want' = built
    /\ prov' = [prov EXCEPT ![Mgmt] = Provider]
    /\ gen' = [gen EXCEPT ![Mgmt] = 1]
    /\ phase' = [phase EXCEPT ![Mgmt] = "live"]
    /\ fin' = [fin EXCEPT ![Mgmt] = TRUE]
    /\ queue' = queue \union {Mgmt}
    /\ UNCHANGED <<rel, chart, tpl, built, rqueue, back, stat, helm, process, pass, bounds>>

(* validateProviderTemplates: the Release is ready when all of its         *)
(* templates are.  An error is retried.                                    *)
ValidateProviderTemplates(r) ==
    /\ r \in rqueue /\ phase[Mgmt] # "deleting" /\ chart[r] = "installed"
    /\ rel' = [rel EXCEPT ![r] = IF tpl[r] = "valid" THEN "ready" ELSE "created"]
    /\ rqueue' = IF tpl[r] = "valid" THEN rqueue \ {r} ELSE rqueue
    /\ UNCHANGED <<chart, tpl, boot, built, objects, helm, process, queue, pass, bounds>>

-----------------------------------------------------------------------------
(* A pass of the Management or of a Region controller *)

Forget(o) ==
    /\ To(o, "idle")
    /\ snap' = [snap EXCEPT ![o] = NoSnap]
    /\ fresh' = [fresh EXCEPT ![o] = FALSE]
    /\ todo' = [todo EXCEPT ![o] = << >>]
    /\ ok' = [ok EXCEPT ![o] = {}]
    /\ err' = [err EXCEPT ![o] = FALSE]
    /\ again' = [again EXCEPT ![o] = FALSE]

(* getWrappedComponents: in this order.                                    *)
WrappedComponents(ps) ==
    {Core \o order : order \in {f \in [1 .. Cardinality(ps) -> ps] : ps = {f[i] : i \in DOMAIN f}}}

(* components.Cleanup: the HelmReleases of providers that are not in the   *)
(* spec any more.                                                          *)
Cleanup(o) ==
    del' = [x \in Owner \X Comp |->
              del[x] \/ (x[1] = o /\ hr[x] # 0 /\ x[2] \in Provider \ prov[o])]

(* Mutant: a Region stays at the release it was installed with.            *)
PinnedRelease(o) == IF o = Mgmt \/ stat[o].release = 0 THEN want ELSE stat[o].release

SpecRelease(o) == want

(* Reconcile: a Region reads the release from the Management object.  What *)
(* the pass has read is used until its end.                                *)
Reconcile(o) ==
    /\ o \in queue /\ pc[o] = "idle"
    /\ queue' = queue \ {o}
    /\ \/ /\ Live(o) /\ fin[o]
          /\ snap' = [snap EXCEPT ![o] = [release |-> SpecRelease(o), prov |-> prov[o]]]
          /\ \E order \in WrappedComponents(prov[o]) : todo' = [todo EXCEPT ![o] = order]
          /\ Cleanup(o)
          /\ To(o, IF o = Mgmt THEN "backup" ELSE "component")
          /\ fresh' = [fresh EXCEPT ![o] = TRUE]
       \/ /\ phase[o] = "deleting"
          /\ To(o, "remove")
          /\ fresh' = [fresh EXCEPT ![o] = TRUE]
          /\ UNCHANGED <<snap, todo, del>>
       \/ ~Exists(o) /\ UNCHANGED <<snap, todo, pc, fresh, del>>
    /\ UNCHANGED <<releases, objects, hr, inst, landed, process, ok, err, again, bounds>>

(* AddFinalizer: an update of its own, followed by another pass.           *)
AddFinalizer(o) ==
    /\ o \in queue /\ pc[o] = "idle" /\ Live(o) /\ ~fin[o]
    /\ fin' = [fin EXCEPT ![o] = TRUE]
    /\ UNCHANGED <<releases, want, back, prov, gen, phase, stat, helm, process, queue, pass, bounds>>

(* The Ready condition of a Region when a call has failed.                 *)
FailedStatus(o) ==
    stat' = IF o \in Region /\ fresh[o] THEN [stat EXCEPT ![o].ready = FALSE] ELSE stat

PassFails(o) ==
    /\ pc[o] # "idle" /\ Fault
    /\ FailedStatus(o)
    /\ queue' = queue \union {o}
    /\ Forget(o)
    /\ UNCHANGED <<releases, want, back, prov, gen, phase, fin, helm, process, edits>>

(* IsCompleted of the backup made for a release.                           *)
IsCompleted(b, r) == mb[<<b, r>>] = "done"

Upgrading == stat[Mgmt].release \notin {0, snap[Mgmt].release}

(* ensureAccessManagement, ensureStateManagementProvider: the latter once  *)
(* the status lists sveltos; that it fails does not matter.                *)
EnsureObjects ==
    \E lost \in {FALSE, TRUE} :
       /\ IF lost THEN Fault ELSE UNCHANGED faults
       /\ made' = made \union {"AccessManagement"}
                  \union IF Sveltos \in stat[Mgmt].listed /\ ~lost
                         THEN {"StateManagementProvider"} ELSE {}

Requested(old) ==
    [x \in Backup \X Release |->
       IF Upgrading /\ x[2] = old /\ mb[x] = "none" THEN "running" ELSE mb[x]]

(* Mutant: the backups are requested and not waited for.                   *)
BackupsRequested(o) ==
    /\ pc[o] = "backup"
    /\ mb' = Requested(stat[Mgmt].release)
    /\ EnsureObjects
    /\ To(o, "component")
    /\ UNCHANGED <<releases, objects, helm, started, queue, snap, fresh, todo, ok, err,
                   again, edits>>

(* ensureUpgradeBackup: before another release is installed a backup of    *)
(* the recorded one is made for each of them, and completed.  Its name is  *)
(* that of the release, so that it is made once.                           *)
EnsureUpgradeBackup(o) ==
    /\ pc[o] = "backup"
    /\ mb' = Requested(stat[Mgmt].release)
    /\ \/ /\ Upgrading /\ \E b \in Backup : ~IsCompleted(b, stat[Mgmt].release)
          /\ queue' = queue \union {o}
          /\ Forget(o)
          /\ UNCHANGED <<made, faults>>
       \/ /\ Upgrading => \A b \in Backup : IsCompleted(b, stat[Mgmt].release)
          /\ EnsureObjects
          /\ To(o, "component")
          /\ UNCHANGED <<queue, snap, fresh, todo, ok, err, again>>
    /\ UNCHANGED <<releases, objects, helm, started, edits>>

DependsOn(c) == CASE c = "kcm" -> {} [] c = "capi" -> {"kcm"} [] OTHER -> {"capi"}

(* Mutant: the HelmReleases do not depend on each other.                   *)
NoDependsOn(c) == {}

(* The dependencies written into a HelmRelease.                            *)
HelmReleaseDependsOn(c) == DependsOn(c)

(* The HelmRelease has observed its last change and is installed.          *)
ProviderReady(o, c) == inst[<<o, c>>] = hr[<<o, c>>] /\ hr[<<o, c>>] # 0 /\ ~del[<<o, c>>]

(* The status of the component is the one at the head of the list.         *)
ComponentDone(o, succeeded, failed, wait) ==
    /\ ok' = [ok EXCEPT ![o] = IF succeeded THEN @ \union {Head(todo[o])} ELSE @]
    /\ err' = [err EXCEPT ![o] = @ \/ failed]
    /\ again' = [again EXCEPT ![o] = @ \/ wait]
    /\ todo' = [todo EXCEPT ![o] = Tail(@)]
    /\ To(o, IF Len(todo[o]) = 1 THEN "status" ELSE "component")

(* components.Reconcile, for the first component left: what it depends on  *)
(* is not ready, or ...                                                    *)
DependencyNotReady(o) ==
    /\ pc[o] = "component"
    /\ ~(DependsOn(Head(todo[o])) \subseteq ok[o])
    /\ ComponentDone(o, FALSE, FALSE, TRUE)
    /\ UNCHANGED <<releases, objects, helm, process, queue, snap, fresh, bounds>>

(* ... its template is not valid or a call fails, or ...                   *)
ComponentFails(o) ==
    /\ pc[o] = "component"
    /\ DependsOn(Head(todo[o])) \subseteq ok[o]
    /\ IF tpl[snap[o].release] = "valid" THEN Fault ELSE UNCHANGED faults
    /\ ComponentDone(o, FALSE, TRUE, FALSE)
    /\ UNCHANGED <<releases, objects, helm, process, queue, snap, fresh, edits>>

(* ... its HelmRelease is written and looked at.  The look is a read from  *)
(* a cache that may not have seen the write yet.                           *)
ReconcileHelmRelease(o) ==
    /\ pc[o] = "component"
    /\ LET c == Head(todo[o])
           r == snap[o].release
           unchanged == hr[<<o, c>>] = r
       IN  /\ DependsOn(c) \subseteq ok[o]
           /\ tpl[r] = "valid"
           /\ hr' = [hr EXCEPT ![<<o, c>>] = r]
           /\ inst' = [inst EXCEPT ![<<o, c>>] = IF unchanged THEN @ ELSE 0]
           /\ \E seen \in {ProviderReady(o, c)} \union (IF unchanged THEN {} ELSE {FALSE}) :
                 ComponentDone(o, seen, FALSE, ~seen)
    /\ UNCHANGED <<releases, objects, del, landed, process, queue, snap, fresh, bounds>>

(* The components of the status.                                           *)
Listed(o) == {"kcm", "capi"} \union snap[o].prov

(* The release of the status moves when no component failed; that some are *)
(* not ready yet is no failure.                                            *)
Recorded(o) == IF err[o] THEN stat[o].release ELSE snap[o].release

(* Mutant: the recorded release decides.                                   *)
ReadyIfRecorded(o) == Recorded(o) = snap[o].release

(* setReadyCondition of either controller.                                 *)
Ready(o) == Recorded(o) = snap[o].release /\ Listed(o) \subseteq ok[o]

NewStatus(o) ==
    [release |-> Recorded(o), ok |-> ok[o], listed |-> Listed(o), ready |-> Ready(o),
     obs |-> IF o = Mgmt \/ ~(err[o] \/ again[o]) THEN gen[o] ELSE stat[o].obs]

(* Mutant: only an error brings the next pass.                             *)
RequeueOnError(o) == err[o]

(* The HelmReleases are not watched: the pass is repeated until all        *)
(* components are ready.                                                   *)
Requeue(o) == err[o] \/ again[o]

(* startDependentControllers, once in the life of the process, then the    *)
(* status is updated unless the object has changed since it was read.      *)
(* An update of the Management object is an event; one of the status of a  *)
(* Region is not.                                                          *)
UpdateStatus(o) ==
    /\ pc[o] = "status"
    /\ started' = (started \/ (o = Mgmt /\ Sveltos \in ok[o]))
    /\ stat' = IF fresh[o] THEN [stat EXCEPT ![o] = NewStatus(o)] ELSE stat
    /\ LET retry == Requeue(o) \/ ~fresh[o] \/ (o = Mgmt /\ ~started')
           event == o = Mgmt /\ stat' # stat
       IN queue' = IF retry \/ event THEN queue \union {o} ELSE queue
    /\ Forget(o)
    /\ UNCHANGED <<releases, want, back, prov, gen, phase, fin, helm, mb, made, bounds>>

-----------------------------------------------------------------------------
(* Deletion *)

Dependents(o, c) == {d \in Placed(o) : c \in DependsOn(d)}

Managed(o) == IF o = Mgmt THEN Owner \X Comp ELSE {o} \X Comp

(* EnsureDeleteAllOf: are there any left?                                  *)
HelmReleasesLeft(o) ==
    \/ \E x \in Managed(o) : hr[x] # 0
    \/ o = Mgmt /\ \E r \in Release : chart[r] # "none"

(* removeHelmReleases: of the Management object all that kcm manages, of a *)
(* Region those no other one depends on.  It is repeated until there are   *)
(* none.  The first Release is part of its chart of templates.             *)
RemoveHelmReleases(o) ==
    /\ pc[o] = "remove"
    /\ del' = [x \in Owner \X Comp |->
                 del[x] \/ (/\ x \in Managed(o) /\ hr[x] # 0
                            /\ o = Mgmt \/ Dependents(o, x[2]) = {})]
    /\ chart' = IF o = Mgmt THEN [r \in Release |-> "none"] ELSE chart
    /\ tpl' = IF o = Mgmt THEN [r \in Release |-> "none"] ELSE tpl
    /\ rel' = IF o = Mgmt THEN [rel EXCEPT ![1] = "absent"] ELSE rel
    /\ \/ /\ ~HelmReleasesLeft(o)
          /\ To(o, "finalizer")
          /\ UNCHANGED <<queue, snap, fresh, todo, ok, err, again, stat>>
       \/ /\ HelmReleasesLeft(o)
          /\ FailedStatus(o)
          /\ queue' = queue \union {o}
          /\ Forget(o)
    /\ UNCHANGED <<boot, built, rqueue, want, back, prov, gen, phase, fin, hr, inst,
                   landed, process, bounds>>

(* Secrets, charts and repositories have gone with them.                   *)
RemoveFinalizer(o) ==
    /\ pc[o] = "finalizer"
    /\ phase' = IF fresh[o] THEN [phase EXCEPT ![o] = "gone"] ELSE phase
    /\ fin' = IF fresh[o] THEN [fin EXCEPT ![o] = FALSE] ELSE fin
    /\ queue' = IF fresh[o] THEN queue ELSE queue \union {o}
    /\ Forget(o)
    /\ UNCHANGED <<releases, want, back, prov, gen, stat, helm, process, bounds>>

-----------------------------------------------------------------------------
(* Users *)

Touch(o) ==
    /\ fresh' = [fresh EXCEPT ![o] = FALSE]
    /\ UNCHANGED <<pc, snap, todo, ok, err, again>>

CreateRelease(r) ==
    /\ rel[r] = "absent" /\ r > 1 /\ stat[Mgmt].ready
    /\ rel' = [rel EXCEPT ![r] = "created"]
    /\ rqueue' = rqueue \union {r}
    /\ UNCHANGED <<chart, tpl, boot, built, objects, helm, process, queue, pass, bounds>>

(* The request a new release in the spec of the Management object makes    *)
(* of the Region controller: it names the Management object.               *)
ReleaseChanged == {Mgmt}

(* ValidateUpdate: the release has to be ready.                            *)
ChangeRelease(r) ==
    /\ Edit /\ Live(Mgmt) /\ r # want /\ rel[r] = "ready"
    /\ want' = r
    /\ back' = (back \/ r < want)
    /\ gen' = [gen EXCEPT ![Mgmt] = @ + 1]
    /\ queue' = queue \union {Mgmt} \union (ReleaseChanged \cap Region)
    /\ Touch(Mgmt)
    /\ UNCHANGED <<releases, prov, phase, fin, stat, helm, process, faults>>

ChangeProviders(o) ==
    /\ Edit /\ Live(o)
    /\ \E p \in Provider : prov' = [prov EXCEPT ![o] = IF p \in @ THEN @ \ {p} ELSE @ \union {p}]
    /\ gen' = [gen EXCEPT ![o] = @ + 1]
    /\ queue' = queue \union {o}
    /\ Touch(o)
    /\ UNCHANGED <<releases, want, back, phase, fin, stat, helm, process, faults>>

CreateRegion(o) ==
    /\ Edit /\ Live(Mgmt) /\ stat[Mgmt].ready /\ phase[o] = "absent"
    /\ phase' = [phase EXCEPT ![o] = "live"]
    /\ gen' = [gen EXCEPT ![o] = 1]
    /\ queue' = queue \union {o}
    /\ UNCHANGED <<releases, want, back, prov, fin, stat, helm, process, pass, faults>>

(* ValidateDelete: the Management object only when there are no Regions.   *)
Delete(o) ==
    /\ Edit /\ Live(o)
    /\ o = Mgmt => \A r \in Region : ~Exists(r)
    /\ phase' = [phase EXCEPT ![o] = IF fin[o] THEN "deleting" ELSE "gone"]
    /\ queue' = queue \union {o}
    /\ Touch(o)
    /\ UNCHANGED <<releases, want, back, prov, gen, fin, stat, helm, process, faults>>

-----------------------------------------------------------------------------
(* Flux, the template controller, velero, the process *)

(* Flux installs a chart of templates; the first one brings its Release.   *)
FluxInstallsTemplates(r) ==
    /\ chart[r] = "pending"
    /\ chart' = [chart EXCEPT ![r] = "installed"]
    /\ tpl' = [tpl EXCEPT ![r] = "invalid"]
    /\ rel' = [rel EXCEPT ![r] = IF @ = "absent" THEN "created" ELSE @]
    /\ rqueue' = rqueue \union {r}
    /\ UNCHANGED <<boot, built, objects, helm, process, queue, pass, bounds>>

TemplateValidated(r) ==
    /\ tpl[r] = "invalid"
    /\ tpl' = [tpl EXCEPT ![r] = "valid"]
    /\ UNCHANGED <<rel, chart, boot, built, rqueue, objects, helm, process, queue, pass, bounds>>

TemplateInvalidated(r) ==
    /\ tpl[r] = "valid" /\ Fault
    /\ tpl' = [tpl EXCEPT ![r] = "invalid"]
    /\ UNCHANGED <<rel, chart, boot, built, rqueue, objects, helm, process, queue, pass, edits>>

(* The process starts anew: every pass is over, every object is queued,    *)
(* and the initial request is made again.  A pass that would find nothing  *)
(* to do is left out.                                                      *)
Restarted ==
    /\ boot' = (phase[Mgmt] = "absent")
    /\ rqueue' = {r \in Release : rel[r] = "created" \/ (rel[r] = "ready" /\ tpl[r] # "valid")}
    /\ started' = FALSE
    /\ queue' = {o \in Owner : Exists(o)}
    /\ pc' = [o \in Owner |-> "idle"]
    /\ snap' = [o \in Owner |-> NoSnap]
    /\ fresh' = [o \in Owner |-> FALSE]
    /\ todo' = [o \in Owner |-> << >>]
    /\ ok' = [o \in Owner |-> {}]
    /\ err' = [o \in Owner |-> FALSE]
    /\ again' = [o \in Owner |-> FALSE]

Restart ==
    /\ Fault /\ Restarted
    /\ UNCHANGED <<rel, chart, tpl, built, objects, helm, mb, made, edits>>

(* Flux installs a HelmRelease once those it depends on are ready.  A kcm  *)
(* of another release on the management cluster replaces the controller.   *)
FluxInstalls(o, c) ==
    /\ hr[<<o, c>>] # 0 /\ ~del[<<o, c>>] /\ inst[<<o, c>>] # hr[<<o, c>>]
    /\ \A d \in HelmReleaseDependsOn(c) : ProviderReady(o, d)
    /\ inst' = [inst EXCEPT ![<<o, c>>] = hr[<<o, c>>]]
    /\ landed' = landed \union {<<o, c, hr[<<o, c>>]>>}
    /\ \/ o = Mgmt /\ c = "kcm" /\ hr[<<o, c>>] # built /\ Restarted /\ built' = hr[<<o, c>>]
       \/ /\ ~(o = Mgmt /\ c = "kcm" /\ hr[<<o, c>>] # built)
          /\ UNCHANGED <<boot, built, rqueue, started, queue, pass>>
    /\ UNCHANGED <<rel, chart, tpl, objects, hr, del, mb, made, bounds>>

FluxUninstalls(o, c) ==
    /\ del[<<o, c>>]
    /\ hr' = [hr EXCEPT ![<<o, c>>] = 0]
    /\ inst' = [inst EXCEPT ![<<o, c>>] = 0]
    /\ del' = [del EXCEPT ![<<o, c>>] = FALSE]
    /\ UNCHANGED <<releases, objects, landed, process, queue, pass, bounds>>

ComponentBreaks(o, c) ==
    /\ inst[<<o, c>>] # 0 /\ Fault
    /\ inst' = [inst EXCEPT ![<<o, c>>] = 0]
    /\ UNCHANGED <<releases, objects, hr, del, landed, process, queue, pass, edits>>

BackupCompletes(b, r) ==
    /\ mb[<<b, r>>] = "running"
    /\ mb' = [mb EXCEPT ![<<b, r>>] = "done"]
    /\ UNCHANGED <<releases, objects, helm, made, started, queue, pass, bounds>>

-----------------------------------------------------------------------------
ReleaseStep(r) ==
    SkipRelease(r) \/ ReconcileKCMTemplates(r) \/ ValidateProviderTemplates(r)

Step(o) ==
    \/ Reconcile(o) \/ AddFinalizer(o) \/ EnsureUpgradeBackup(o)
    \/ DependencyNotReady(o) \/ ComponentFails(o) \/ ReconcileHelmRelease(o)
    \/ UpdateStatus(o) \/ RemoveHelmReleases(o) \/ RemoveFinalizer(o)

Next ==
    \/ EnsureManagement \/ Restart
    \/ \E r \in Release : \/ ReleaseStep(r) \/ CreateRelease(r) \/ ChangeRelease(r)
                          \/ FluxInstallsTemplates(r) \/ TemplateValidated(r)
                          \/ TemplateInvalidated(r)
    \/ \E o \in Owner : Step(o) \/ PassFails(o) \/ ChangeProviders(o) \/ Delete(o)
    \/ \E o \in Region : CreateRegion(o)
    \/ \E o \in Owner, c \in Comp : FluxInstalls(o, c) \/ FluxUninstalls(o, c)
                                  \/ ComponentBreaks(o, c)
    \/ \E b \in Backup, r \in Release : BackupCompletes(b, r)

Spec == Init /\ [][Next]_vars

(* Queued keys are worked on, and Flux, the template controller and velero *)
(* do their part.                                                          *)
Fairness ==
    /\ WF_vars(EnsureManagement)
    /\ \A r \in Release : /\ WF_vars(ReleaseStep(r)) /\ WF_vars(FluxInstallsTemplates(r))
                          /\ WF_vars(TemplateValidated(r))
    /\ \A o \in Owner : WF_vars(Step(o))
    /\ \A o \in Owner, c \in Comp : WF_vars(FluxInstalls(o, c)) /\ WF_vars(FluxUninstalls(o, c))
    /\ \A b \in Backup, r \in Release : WF_vars(BackupCompletes(b, r))

FairSpec == Spec /\ Fairness

-----------------------------------------------------------------------------
(* Properties *)

TypeOK ==
    /\ rel \in [Release -> {"absent", "created", "ready"}]
    /\ chart \in [Release -> {"none", "pending", "installed"}]
    /\ tpl \in [Release -> {"none", "invalid", "valid"}]
    /\ boot \in BOOLEAN /\ built \in Release
    /\ rqueue \subseteq Release
    /\ want \in 0 .. MaxRelease /\ back \in BOOLEAN
    /\ prov \in [Owner -> SUBSET Provider]
    /\ gen \in [Owner -> 0 .. MaxChanges + 1]
    /\ phase \in [Owner -> {"absent", "live", "deleting", "gone"}]
    /\ fin \in [Owner -> BOOLEAN]
    /\ stat \in [Owner -> Status]
    /\ hr \in [Owner \X Comp -> 0 .. MaxRelease]
    /\ inst \in [Owner \X Comp -> 0 .. MaxRelease]
    /\ del \in [Owner \X Comp -> BOOLEAN]
    /\ landed \subseteq Owner \X Comp \X Release
    /\ mb \in [Backup \X Release -> {"none", "running", "done"}]
    /\ made \subseteq {"AccessManagement", "StateManagementProvider"}
    /\ started \in BOOLEAN
    /\ queue \subseteq Owner
    /\ pc \in [Owner -> {"idle", "backup", "component", "status", "remove", "finalizer"}]
    /\ snap \in [Owner -> Snaps]
    /\ fresh \in [Owner -> BOOLEAN]
    /\ todo \in [Owner -> Seq(Comp)]
    /\ ok \in [Owner -> SUBSET Comp]
    /\ err \in [Owner -> BOOLEAN] /\ again \in [Owner -> BOOLEAN]
    /\ edits \in 0 .. MaxChanges /\ faults \in 0 .. MaxFaults

(* The components of a release come one after the other, on the management *)
(* cluster and in the Regions: the release asked for is first installed of *)
(* a component when what that depends on has been at this release, even    *)
(* when checkProviderStatus reads a HelmRelease from before the upgrade.   *)
(* A spec that goes back and forth during an upgrade gives this up: what   *)
(* it left of the one release may be installed on the other.  When a       *)
(* Region goes, removeHelmReleases takes what others depend on after them. *)
InOrder ==
    [][\A o \in Owner, c \in Comp :
         LET r == inst'[<<o, c>>] IN
         /\ ~back /\ r = want /\ r # 0 /\ <<o, c, r>> \notin landed =>
               \A d \in DependsOn(c) : <<o, d, r>> \in landed
         /\ o \in Region /\ hr[<<o, c>>] # 0 /\ hr'[<<o, c>>] = 0 =>
               ~\E d \in Placed(o) : c \in DependsOn(d)]_vars

(* ensureUpgradeBackup comes first: no HelmRelease of the management       *)
(* cluster leaves the recorded release before its backups are completed,   *)
(* whatever failed, restarted or was edited in between.                    *)
BackupFirst ==
    [][\A c \in Comp :
         /\ hr'[<<Mgmt, c>>] \notin {0, hr[<<Mgmt, c>>], stat[Mgmt].release}
         /\ stat[Mgmt].release # 0
         => \A b \in Backup : mb[<<b, stat[Mgmt].release>>] = "done"]_vars

(* The Ready condition: a Management object that says it is ready and has  *)
(* observed its generation has every component written at its release,     *)
(* though the release is recorded when some are not.                       *)
ReadyMeansWritten ==
    Live(Mgmt) /\ stat[Mgmt].ready /\ stat[Mgmt].obs = gen[Mgmt] =>
        \A c \in {"kcm", "capi"} \union prov[Mgmt] : hr[<<Mgmt, c>>] = want

(* The finalizers are removed last: nothing is installed for an object     *)
(* that is gone.                                                           *)
NothingOutlivesIt == \A o \in Owner : phase[o] = "gone" => Placed(o) = {}

(* What the status and the finalizers say of the HelmReleases holds        *)
(* between all the writes that make up a pass.                             *)
ReleaseInv == TypeOK /\ ReadyMeansWritten /\ NothingOutlivesIt

(* Whatever failed, every component of the Management object is in the end *)
(* installed at its release and the status says so; the objects services   *)
(* need exist and the controllers that wait for sveltos run.  Deletions    *)
(* have ended, of the Management object and of Regions.                    *)
Converges ==
    <>[](/\ \A o \in Owner : phase[o] # "deleting"
         /\ Live(Mgmt) =>
              /\ \A c \in {"kcm", "capi"} \union prov[Mgmt] : inst[<<Mgmt, c>>] = want
              /\ \A p \in Provider \ prov[Mgmt] : hr[<<Mgmt, p>>] = 0
              /\ stat[Mgmt].ready /\ stat[Mgmt].release = want
              /\ Sveltos \in prov[Mgmt] =>
                    started /\ made = {"AccessManagement", "StateManagementProvider"})

(* A Region installs the templates of the release of the Management        *)
(* object.  Its watch on that object asks for the wrong key, so that a new *)
(* release reaches it only by the restart a new kcm brings; that is not    *)
(* enough for a spec that goes back before the new kcm is installed.       *)
RegionFollowsRelease ==
    <>[](\A o \in Region : Live(o) /\ ~back =>
           \A c \in {"kcm", "capi"} \union prov[o] : inst[<<o, c>>] = want)
=============================================================================
