----------------------------- MODULE ChildRBAC -----------------------------
(***************************************************************************)
(* How the ClusterDeployment controller grants the access an RBACPolicy    *)
(* describes in a child cluster, and how it takes it back.                 *)
(*                                                                         *)
(* The policy is gone by the time its objects have to be revoked, so the   *)
(* controller keeps a ledger, status.rbacPolicyGrant.  The reconcile of a  *)
(* ClusterDeployment is a sequence of steps on a copy of the object that   *)
(* an informer served; the controller may crash between any two of them.   *)
(* A status update conflicts when the object is no longer the one read; a  *)
(* status patch never does.                                                *)
(***************************************************************************)
EXTENDS Naturals, FiniteSets

CONSTANTS
    Objects,         \* names of ClusterRoles and ClusterRoleBindings
    StaleReads,      \* may a reconcile start before its informer saw the last write?
    MaxPolicyEdits,  \* bound on the edits of policy and reference
    MaxChildFaults   \* bound on crashes, failed calls and lost kubeconfigs

ASSUME ChildRBACAssumption ==
    /\ StaleReads \in BOOLEAN
    /\ MaxPolicyEdits \in Nat
    /\ MaxChildFaults \in Nat

VARIABLES
    cd,          \* the ClusterDeployment: its reference, ledger and condition
    cache,       \* the ClusterDeployment as the informer last saw it
    policy,      \* the RBACPolicy the reference names
    child,       \* managed objects in the child cluster
    kubeconfig,  \* is the kubeconfig Secret there?
    capi,        \* is the CAPI Cluster there?
    synced,      \* rbacSynced: id of the policy whose sync is still fresh
    rbac,        \* the running reconcile
    policyEdits, childFaults

user      == <<policy, policyEdits>>
cluster   == <<kubeconfig, capi>>
childVars == <<cd, cache, user, child, cluster, synced, rbac, childFaults>>

(* cond stands for the presence of RBACPolicyReadyCondition.               *)
ClusterDeployment == [ref : BOOLEAN, grant : BOOLEAN, cond : BOOLEAN]

(* id stands for the UID and generation; a policy without one is absent.   *)
Policy   == [id : 0 .. MaxPolicyEdits, objs : SUBSET Objects]
NoPolicy == [id |-> 0, objs |-> {}]

(* old: status at the start; base: the version an update is checked        *)
(* against; cd: the copy being worked on; ok: did Sync apply everything?   *)
RBACReconcile == [pc   : {"run", "sync", "prune", "status"},
                  old  : ClusterDeployment,
                  base : ClusterDeployment,
                  cd   : ClusterDeployment,
                  pol  : Policy,
                  ok   : BOOLEAN]
NoReconcile == [pc |-> "idle"]

Reconciling(pc) == rbac # NoReconcile /\ rbac.pc = pc

ChildFault == childFaults < MaxChildFaults /\ childFaults' = childFaults + 1

(* A step that ends in the status update, with the condition set to cond.  *)
Report(cond) == rbac' = [rbac EXCEPT !.pc = "status", !.cd.cond = cond]

-----------------------------------------------------------------------------
(* The reconcile: what it reads *)

(* getClusterScope: the policy is only looked up when it is referenced.    *)
BeginRBAC ==
    /\ rbac = NoReconcile
    /\ StaleReads \/ cache = cd
    /\ rbac' = [pc |-> "run", old |-> cache, base |-> cache, cd |-> cache,
                pol |-> IF cache.ref THEN policy ELSE NoPolicy, ok |-> TRUE]
    /\ UNCHANGED <<cd, cache, user, child, cluster, synced, childFaults>>

-----------------------------------------------------------------------------
(* ensureRBACPolicy with a policy *)

MustSync == Reconciling("run") /\ rbac.pol # NoPolicy /\ synced # rbac.pol.id

(* rbacSyncFresh: the child cluster is not visited at all.                 *)
SkipFresh ==
    /\ Reconciling("run") /\ rbac.pol # NoPolicy /\ synced = rbac.pol.id
    /\ Report(TRUE)
    /\ UNCHANGED <<cd, cache, user, child, cluster, synced, childFaults>>

(* Without a kubeconfig: wait for it, or opt out when none will come.      *)
AwaitKubeconfig ==
    /\ MustSync /\ ~kubeconfig
    /\ Report(capi \/ rbac.cd.cond)
    /\ UNCHANGED <<cd, cache, user, child, cluster, synced, childFaults>>

(* A lookup fails, or the client for the child cluster cannot be built, or *)
(* its control plane is not up, or markRBACGranted's patch fails; most of  *)
(* these are reported in the condition.                                    *)
SyncUnavailable ==
    /\ MustSync
    /\ ChildFault
    /\ \E cond \in {TRUE, rbac.cd.cond} : Report(cond)
    /\ UNCHANGED <<cd, cache, user, child, cluster, synced>>

(* Mutant: the grant is only noted in the copy, for the status update.     *)
MarkInMemory ==
    /\ MustSync /\ kubeconfig
    /\ rbac' = [rbac EXCEPT !.pc = "sync", !.cd.grant = TRUE]
    /\ UNCHANGED <<cd, cache, user, child, cluster, synced, childFaults>>

(* The patch answers with the object as it is now, which replaces the copy. *)
MarkRBACGranted ==
    /\ MustSync /\ kubeconfig
    /\ IF rbac.cd.grant
       THEN /\ rbac' = [rbac EXCEPT !.pc = "sync"]
            /\ UNCHANGED cd
       ELSE /\ cd' = [cd EXCEPT !.grant = TRUE]
            /\ rbac' = [rbac EXCEPT !.pc = "sync", !.base = cd', !.cd = cd']
    /\ UNCHANGED <<cache, user, child, cluster, synced, childFaults>>

(* A binding that fails does not stop the rest; all of them fail when the  *)
(* child cluster is gone by now.                                           *)
Sync ==
    /\ Reconciling("sync")
    /\ \E applied \in SUBSET rbac.pol.objs :
         /\ ~capi => applied = {}
         /\ child' = child \union applied
         /\ rbac' = [rbac EXCEPT !.pc = "prune", !.ok = (applied = rbac.pol.objs)]
         /\ IF applied = rbac.pol.objs \/ ~capi THEN UNCHANGED childFaults ELSE ChildFault
    /\ UNCHANGED <<cd, cache, user, cluster, synced>>

(* Prune what the policy does not name; then the outcome of both.          *)
PruneStale ==
    /\ Reconciling("prune")
    /\ \E removed \in SUBSET (child \ rbac.pol.objs) :
         LET pruned == removed = child \ rbac.pol.objs
         IN  /\ child' = child \ removed
             /\ synced' = IF rbac.ok /\ pruned THEN rbac.pol.id ELSE 0
             /\ IF pruned THEN UNCHANGED childFaults ELSE ChildFault
    /\ Report(TRUE)
    /\ UNCHANGED <<cd, cache, user, cluster>>

-----------------------------------------------------------------------------
(* revokeRBACPolicy *)

MayRevoke == Reconciling("run") /\ rbac.pol = NoPolicy

(* Mutant: a reference that dangles never revokes.                         *)
NothingToRevokeYet == rbac.cd.ref \/ ~(rbac.cd.grant \/ rbac.cd.cond)

(* A dangling reference that granted nothing, or no trace of a policy.     *)
NothingToRevoke == ~rbac.cd.grant /\ (rbac.cd.ref \/ ~rbac.cd.cond)

RevokeNothing ==
    /\ MayRevoke /\ NothingToRevoke
    /\ Report(rbac.cd.ref)
    /\ UNCHANGED <<cd, cache, user, child, cluster, synced, childFaults>>

(* The child cluster is there and cannot be reached, or a lookup fails:    *)
(* retry later.                                                            *)
RevokeUnavailable ==
    /\ MayRevoke /\ ~NothingToRevoke
    /\ \/ ~kubeconfig /\ rbac.cd.grant /\ capi /\ UNCHANGED childFaults
       \/ ChildFault
    /\ Report(rbac.cd.cond)
    /\ UNCHANGED <<cd, cache, user, child, cluster, synced>>

(* Prune of everything; the ledger is cleared once nothing is left.        *)
Revoke ==
    /\ MayRevoke /\ ~NothingToRevoke
    /\ kubeconfig \/ ~(rbac.cd.grant /\ capi)
    /\ \E removed \in SUBSET child :
         /\ IF kubeconfig THEN TRUE ELSE removed = {}
         /\ child' = child \ removed
         /\ IF kubeconfig /\ child' # {}
            THEN /\ ChildFault
                 /\ Report(rbac.cd.cond)
                 /\ UNCHANGED synced
            ELSE /\ rbac' = [rbac EXCEPT !.pc = "status", !.cd.grant = FALSE,
                                        !.cd.cond = rbac.cd.ref]
                 /\ synced' = 0
                 /\ UNCHANGED childFaults
    /\ UNCHANGED <<cd, cache, user, cluster>>

-----------------------------------------------------------------------------
(* The end of the reconcile, and what happens around it *)

(* updateStatus: nothing to write, or written, or refused.                 *)
UpdateRBACStatus ==
    /\ Reconciling("status")
    /\ rbac' = NoReconcile
    /\ IF rbac.cd # rbac.old /\ rbac.base = cd
       THEN \/ cd' = [cd EXCEPT !.grant = rbac.cd.grant, !.cond = rbac.cd.cond]
               /\ UNCHANGED childFaults
            \/ UNCHANGED cd /\ ChildFault
       ELSE UNCHANGED <<cd, childFaults>>
    /\ UNCHANGED <<cache, user, child, cluster, synced>>

(* The sync's deadline passes.                                             *)
SyncExpires ==
    /\ synced # 0
    /\ synced' = 0
    /\ UNCHANGED <<cd, cache, user, child, cluster, rbac, childFaults>>

CacheCatchesUp ==
    /\ cache # cd
    /\ cache' = cd
    /\ UNCHANGED <<cd, user, child, cluster, synced, rbac, childFaults>>

(* A restart forgets the reconcile and the freshness; the informer lists.  *)
ControllerCrash ==
    /\ ChildFault
    /\ rbac' = NoReconcile
    /\ synced' = 0
    /\ cache' = cd
    /\ UNCHANGED <<cd, user, child, cluster>>

KubeconfigLost ==
    /\ kubeconfig
    /\ ChildFault
    /\ kubeconfig' = FALSE
    /\ UNCHANGED <<cd, cache, user, child, capi, synced, rbac>>

KubeconfigReady ==
    /\ ~kubeconfig /\ capi
    /\ kubeconfig' = TRUE
    /\ UNCHANGED <<cd, cache, user, child, capi, synced, rbac, childFaults>>

(* The child cluster is torn down, and all it held with it.                *)
ClusterGone ==
    /\ capi
    /\ ChildFault
    /\ capi' = FALSE /\ kubeconfig' = FALSE /\ child' = {}
    /\ UNCHANGED <<cd, cache, user, synced, rbac>>

(* The user creates, edits or deletes the policy, sets or clears the       *)
(* reference.                                                              *)
EditPolicy ==
    /\ policyEdits < MaxPolicyEdits
    /\ policyEdits' = policyEdits + 1
    /\ policy' \in {NoPolicy} \union [id : {policyEdits'}, objs : SUBSET Objects \ {{}}]
    /\ policy' # policy
    /\ UNCHANGED <<cd, cache, child, cluster, synced, rbac, childFaults>>

EditReference ==
    /\ policyEdits < MaxPolicyEdits
    /\ policyEdits' = policyEdits + 1
    /\ cd' = [cd EXCEPT !.ref = ~cd.ref]
    /\ UNCHANGED <<cache, policy, child, cluster, synced, rbac, childFaults>>

-----------------------------------------------------------------------------
(* Specification *)

ChildInit ==
    /\ cd \in [ref : BOOLEAN, grant : {FALSE}, cond : {FALSE}]
    /\ cache = cd
    /\ policy = NoPolicy
    /\ child = {}
    /\ kubeconfig = FALSE
    /\ capi = TRUE
    /\ synced = 0
    /\ rbac = NoReconcile
    /\ policyEdits = 0
    /\ childFaults = 0

ReconcileStep ==
    \/ BeginRBAC
    \/ SkipFresh \/ AwaitKubeconfig \/ SyncUnavailable \/ MarkRBACGranted
    \/ Sync \/ PruneStale
    \/ RevokeNothing \/ RevokeUnavailable \/ Revoke
    \/ UpdateRBACStatus

Environment ==
    \/ SyncExpires \/ CacheCatchesUp \/ ControllerCrash
    \/ KubeconfigLost \/ KubeconfigReady \/ ClusterGone
    \/ EditPolicy \/ EditReference

ChildNext == ReconcileStep \/ Environment

(* Events, errors and the resync timer requeue the ClusterDeployment, the  *)
(* informer delivers, time passes, CAPI restores the kubeconfig.           *)
ChildFairness ==
    /\ WF_childVars(ReconcileStep)
    /\ WF_childVars(SyncExpires)
    /\ WF_childVars(CacheCatchesUp)
    /\ WF_childVars(KubeconfigReady)

ChildSpec == ChildInit /\ [][ChildNext]_childVars
ChildFairSpec == ChildSpec /\ ChildFairness

-----------------------------------------------------------------------------
(* Properties *)

(* Every variable stays in its type.                                       *)
ChildTypeOK ==
    /\ cd \in ClusterDeployment /\ cache \in ClusterDeployment
    /\ policy \in Policy
    /\ child \subseteq Objects
    /\ kubeconfig \in BOOLEAN /\ capi \in BOOLEAN
    /\ synced \in 0 .. MaxPolicyEdits
    /\ rbac \in {NoReconcile} \union RBACReconcile
    /\ policyEdits \in 0 .. MaxPolicyEdits
    /\ childFaults \in 0 .. MaxChildFaults

(* "status.rbacPolicyGrant survives for as long as anything may still be   *)
(* granted": the ledger knows of every object in the child cluster, in     *)
(* every state a crash, a lost update or an edit can leave behind.         *)
GrantRecorded == child # {} => cd.grant

(* What keeps the ledger honest between the steps of a reconcile: a copy   *)
(* in use agrees with the ledger, the child cluster is written to under a  *)
(* recorded grant, the update that clears the record comes last, and a     *)
(* cluster that is gone holds nothing.                                     *)
LedgerInv ==
    /\ GrantRecorded
    /\ capi \/ child = {}
    /\ Reconciling("run") => rbac.cd.grant = cd.grant
    /\ (Reconciling("sync") \/ Reconciling("prune")) => cd.grant /\ rbac.cd.grant
    /\ (Reconciling("status") /\ ~rbac.cd.grant) => child = {}

Wanted == IF cd.ref THEN policy.objs ELSE {}

(* Access follows the policy: once users and faults are done, the child    *)
(* cluster holds what the policy grants, and nothing when it is gone.      *)
AccessFollowsPolicy == <>[](capi => child = Wanted)
=============================================================================
