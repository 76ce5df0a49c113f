-------------------------- MODULE TemplateCatalog --------------------------
(***************************************************************************)
(* How ClusterTemplates are validated, distributed and removed.            *)
(*                                                                         *)
(* A template of the system namespace is turned into a HelmChart it owns   *)
(* and becomes valid once flux has the chart's artifact.  A managed        *)
(* ClusterTemplateChain copies the valid system templates it supports into *)
(* its own (tenant) namespace: a copy has no chart of its own, it refers   *)
(* to the HelmChart of its source.  ClusterDeployments of the tenant are   *)
(* admitted on valid copies.  Copies go with the last chain that owns them *)
(* (garbage collection), system templates when a user removes them; every  *)
(* removal passes the ClusterTemplate webhook.                             *)
(*                                                                         *)
(* The chain controller lists the system templates first and writes the    *)
(* copies one by one: what it wrote from may be gone meanwhile.  It does   *)
(* not watch templates, and template passes do not watch charts: both rely *)
(* on being retried.                                                       *)
(***************************************************************************)
EXTENDS Naturals

CONSTANTS
    Template,   \* template names
    Chain,      \* managed chains of one tenant namespace
    Supports,   \* [Chain -> SUBSET Template] (the specification is immutable)
    Cluster,    \* ClusterDeployments of the namespace
    Own,        \* names the tenant may already have a template of its own under
    None,       \* no template
    MaxEdits    \* bound: removals, re-creations and failures outside kcm

ASSUME CatalogAssumption ==
    /\ Supports \in [Chain -> SUBSET Template]
    /\ Own \subseteq Template /\ None \notin Template /\ MaxEdits \in Nat

VARIABLES
    mgmt,       \* the Management exists
    sys,        \* templates of the system namespace: existence, status.valid
    chart,      \* their HelmCharts, as flux reports them
    copy,       \* templates of the tenant namespace
    chain,      \* chains: existence, status.valid
    used,       \* the template of each ClusterDeployment, or None
    tq, cq,     \* workqueues of the template and of the chain controller
    w,          \* the chain controller's pass
    edits,
    raced       \* history: templates removed while a chain pass had listed them

vars == <<mgmt, sys, chart, copy, chain, used, tq, cq, w, edits, raced>>

Idle == [on |-> FALSE]
NoCopy == [on |-> FALSE, valid |-> FALSE, own |-> FALSE, owners |-> {}]

TypeOK ==
    /\ mgmt \in BOOLEAN
    /\ sys \in [Template -> [on : BOOLEAN, valid : BOOLEAN]]
    /\ chart \in [Template -> {"none", "pending", "ready", "failed"}]
    /\ copy \in [Template -> [on : BOOLEAN, valid : BOOLEAN, own : BOOLEAN, owners : SUBSET Chain]]
    /\ chain \in [Chain -> [on : BOOLEAN, valid : BOOLEAN]]
    /\ used \in [Cluster -> Template \cup {None}]
    /\ tq \subseteq {"system", "tenant"} \X Template /\ cq \subseteq Chain
    /\ w \in {Idle} \cup [on : {TRUE}, k : Chain, todo : SUBSET Template,
                          listed : SUBSET Template, failed : BOOLEAN]
    /\ edits \in 0..MaxEdits /\ raced \subseteq Template

Init ==
    /\ mgmt = FALSE
    /\ sys = [t \in Template |-> [on |-> TRUE, valid |-> FALSE]]
    /\ chart = [t \in Template |-> "none"]
    /\ \E own \in SUBSET Own :
          /\ copy = [t \in Template |-> IF t \in own THEN [NoCopy EXCEPT !.on = TRUE, !.own = TRUE]
                                        ELSE NoCopy]
          /\ tq = ({"system"} \X Template) \cup ({"tenant"} \X own)
    /\ chain = [k \in Chain |-> [on |-> TRUE, valid |-> FALSE]]
    /\ used = [c \in Cluster |-> None]
    /\ cq = Chain /\ w = Idle /\ edits = 0 /\ raced = {}

Edit == edits < MaxEdits /\ edits' = edits + 1

-----------------------------------------------------------------------------
(* The template controllers: ReconcileTemplate.                            *)

\* updateStatus
Judged(ns, t, valid) ==
    IF ns = "system" THEN sys' = [sys EXCEPT ![t].valid = valid] /\ UNCHANGED copy
    ELSE copy' = [copy EXCEPT ![t].valid = valid] /\ UNCHANGED sys

Present(ns, t) == IF ns = "system" THEN sys[t].on ELSE copy[t].on

\* Not found: nothing to do.  No Management yet: invalid, and another pass a minute later.
\* Registry Secrets missing: likewise.
TemplateWaits(ns, t) ==
    /\ <<ns, t>> \in tq
    /\ \/ ~Present(ns, t) /\ tq' = tq \ {<<ns, t>>} /\ UNCHANGED <<sys, copy, edits>>
       \/ Present(ns, t) /\ ~mgmt /\ Judged(ns, t, FALSE) /\ UNCHANGED <<tq, edits>>
       \/ Present(ns, t) /\ mgmt /\ Edit /\ Judged(ns, t, FALSE) /\ UNCHANGED tq
    /\ UNCHANGED <<mgmt, chart, chain, used, cq, w, raced>>

\* reconcileHelmChart, for a template with a chartSpec: the first pass creates the chart and fails
\* because the artifact is not there yet.
MakeChart(t) ==
    /\ <<"system", t>> \in tq /\ sys[t].on /\ mgmt /\ chart[t] = "none"
    /\ chart' = [chart EXCEPT ![t] = "pending"]
    /\ UNCHANGED <<mgmt, sys, copy, chain, used, tq, cq, w, edits, raced>>

\* The chart is there: not reconciled yet, an error that is not reported; failed, an error that
\* is; ready, and the chart's content is accepted.  A copy whose chart is gone fails without a word
\* in its status, and a template of the tenant's own has a chart of its own.
ReadChart(ns, t) ==
    /\ <<ns, t>> \in tq /\ Present(ns, t) /\ mgmt
    /\ LET own == ns = "tenant" /\ copy[t].own IN
       \/ /\ own \/ chart[t] = "ready"
          /\ Judged(ns, t, TRUE)
          /\ tq' = tq \ {<<ns, t>>}
       \/ ~own /\ chart[t] = "failed" /\ Judged(ns, t, FALSE) /\ UNCHANGED tq
    /\ UNCHANGED <<mgmt, chart, chain, used, cq, w, edits, raced>>

-----------------------------------------------------------------------------
(* The chain controller: ReconcileTemplateChain.                           *)

\* Not found: nothing to do.  No Management: an error.  The validity is written in a pass of its
\* own, whose event brings the next one.
ChainWaits(k) ==
    /\ ~w.on /\ k \in cq
    /\ \/ ~chain[k].on /\ cq' = cq \ {k} /\ UNCHANGED chain
       \/ chain[k].on /\ mgmt /\ ~chain[k].valid
          /\ chain' = [chain EXCEPT ![k].valid = TRUE] /\ UNCHANGED cq
    /\ UNCHANGED <<mgmt, sys, chart, copy, used, tq, w, edits, raced>>

\* reconcileObj: getTemplates lists the system templates; only valid ones are distributed.
ListTemplates(k) ==
    /\ ~w.on /\ k \in cq /\ chain[k].on /\ chain[k].valid /\ mgmt
    /\ w' = [on |-> TRUE, k |-> k, todo |-> Supports[k],
             listed |-> {t \in Template : sys[t].on /\ sys[t].valid}, failed |-> FALSE]
    /\ cq' = cq \ {k}
    /\ UNCHANGED <<mgmt, sys, chart, copy, chain, used, tq, edits, raced>>

\* Mutant: the owner reference is left out.
DistributedUnowned(t, k) == IF copy[t].on THEN copy[t] ELSE [NoCopy EXCEPT !.on = TRUE]

\* CreateOrUpdate: a template that exists, the tenant's own included, only gets the owner.
Distributed(t, k) ==
    [(IF copy[t].on THEN copy[t] ELSE [NoCopy EXCEPT !.on = TRUE]) EXCEPT !.owners = @ \cup {k}]

Distribute(t) ==
    /\ w.on /\ t \in w.todo
    /\ w' = [w EXCEPT !.todo = @ \ {t}, !.failed = @ \/ t \notin w.listed]
    /\ IF t \in w.listed
       THEN /\ copy' = [copy EXCEPT ![t] = Distributed(t, w.k)]
            /\ tq' = IF copy[t].on THEN tq ELSE tq \cup {<<"tenant", t>>}
       ELSE UNCHANGED <<copy, tq>>
    /\ UNCHANGED <<mgmt, sys, chart, chain, used, cq, edits, raced>>

\* A source that is missing or not valid yet fails the pass, and the queue retries it.
EndChainPass ==
    /\ w.on /\ w.todo = {}
    /\ w' = Idle
    /\ cq' = IF w.failed THEN cq \cup {w.k} ELSE cq
    /\ UNCHANGED <<mgmt, sys, chart, copy, chain, used, tq, edits, raced>>

-----------------------------------------------------------------------------
(* Admission: the ClusterTemplate and the ClusterDeployment webhook.       *)

\* templateIsInUseByCluster
InUse(t) == \E c \in Cluster : used[c] = t

\* getOwnersWithKind: the chains that own the copy and still exist.
LiveOwners(t) == {k \in copy[t].owners : chain[k].on}

\* Mutant: only owners count.
MayDeleteUnowned(t) == LiveOwners(t) = {}

\* ValidateDelete of a copy, whoever asks.
MayDeleteCopy(t) == ~InUse(t) /\ LiveOwners(t) = {}

\* Mutant: copies count once a cluster uses them.
HasUsedCopies(t) == copy[t].on /\ ~copy[t].own /\ InUse(t)

\* hasDistributedCopies
HasDistributedCopies(t) == copy[t].on /\ ~copy[t].own

\* ValidateCreate and ValidateUpdate: the template exists and is valid.
MayDeploy(t) == copy[t].on /\ copy[t].valid

\* A ClusterDeployment is created on a template, or moved to another one.  What else admission asks
\* for (providers, Kubernetes versions, the Credential, services) only refuses more.
UserDeploys(c, t) ==
    /\ used[c] # t /\ MayDeploy(t)
    /\ used' = [used EXCEPT ![c] = t]
    /\ UNCHANGED <<mgmt, sys, chart, copy, chain, tq, cq, w, edits, raced>>

UserDeletesCluster(c) ==
    /\ used[c] # None
    /\ used' = [used EXCEPT ![c] = None]
    /\ UNCHANGED <<mgmt, sys, chart, copy, chain, tq, cq, w, edits, raced>>

UserDeletesSystemTemplate(t) ==
    /\ Edit /\ sys[t].on /\ ~HasDistributedCopies(t)
    /\ sys' = [sys EXCEPT ![t] = [on |-> FALSE, valid |-> FALSE]]
    /\ raced' = IF w.on /\ t \in w.todo \cap w.listed THEN raced \cup {t} ELSE raced
    /\ UNCHANGED <<mgmt, chart, copy, chain, used, tq, cq, w>>

UserMakesSystemTemplate(t) ==
    /\ Edit /\ ~sys[t].on
    /\ sys' = [sys EXCEPT ![t].on = TRUE]
    /\ tq' = tq \cup {<<"system", t>>}
    /\ UNCHANGED <<mgmt, chart, copy, chain, used, cq, w, raced>>

UserDeletesCopy(t) ==
    /\ Edit /\ copy[t].on /\ MayDeleteCopy(t)
    /\ copy' = [copy EXCEPT ![t] = NoCopy]
    /\ UNCHANGED <<mgmt, sys, chart, chain, used, tq, cq, w, raced>>

\* The webhook of chains lets every removal through.
UserDeletesChain(k) ==
    /\ Edit /\ chain[k].on
    /\ chain' = [chain EXCEPT ![k].on = FALSE]
    /\ cq' = cq \cup {k}
    /\ UNCHANGED <<mgmt, sys, chart, copy, used, tq, w, raced>>

-----------------------------------------------------------------------------
(* Around kcm: flux, the garbage collector, the Management.                *)

Flux(t) ==
    /\ \/ chart[t] \in {"pending", "failed"} /\ chart' = [chart EXCEPT ![t] = "ready"] /\ UNCHANGED edits
       \/ chart[t] \in {"pending", "ready"} /\ Edit /\ chart' = [chart EXCEPT ![t] = "failed"]
    /\ UNCHANGED <<mgmt, sys, copy, chain, used, tq, cq, w, raced>>

\* The garbage collector asks for a copy whose owners are all gone, and asks again when refused.
CollectCopy(t) ==
    /\ copy[t].on /\ copy[t].owners # {} /\ MayDeleteCopy(t)
    /\ copy' = [copy EXCEPT ![t] = NoCopy]
    /\ UNCHANGED <<mgmt, sys, chart, chain, used, tq, cq, w, edits, raced>>

CollectChart(t) ==
    /\ ~sys[t].on /\ chart[t] # "none"
    /\ chart' = [chart EXCEPT ![t] = "none"]
    /\ UNCHANGED <<mgmt, sys, copy, chain, used, tq, cq, w, edits, raced>>

CreateManagement ==
    /\ ~mgmt /\ mgmt' = TRUE
    /\ UNCHANGED <<sys, chart, copy, chain, used, tq, cq, w, edits, raced>>

-----------------------------------------------------------------------------
TemplatePass(ns, t) == TemplateWaits(ns, t) \/ (ns = "system" /\ MakeChart(t)) \/ ReadChart(ns, t)

ChainPass(k) == ChainWaits(k) \/ ListTemplates(k)

ChainWork == (\E t \in Template : Distribute(t)) \/ EndChainPass

Garbage(t) == CollectCopy(t) \/ CollectChart(t)

Next ==
    \/ \E ns \in {"system", "tenant"}, t \in Template : TemplatePass(ns, t)
    \/ \E k \in Chain : ChainPass(k) \/ UserDeletesChain(k)
    \/ ChainWork \/ CreateManagement
    \/ \E t \in Template : \/ UserDeletesSystemTemplate(t) \/ UserMakesSystemTemplate(t)
                           \/ UserDeletesCopy(t) \/ Flux(t) \/ Garbage(t)
    \/ \E c \in Cluster : UserDeletesCluster(c) \/ \E t \in Template : UserDeploys(c, t)

\* Workqueues serve every item, flux goes on trying, the garbage collector too.
Fairness ==
    /\ \A ns \in {"system", "tenant"}, t \in Template : WF_vars(TemplatePass(ns, t))
    /\ \A k \in Chain : SF_vars(ChainPass(k))
    /\ WF_vars(ChainWork)
    /\ \A t \in Template : WF_vars(Flux(t)) /\ WF_vars(CollectCopy(t)) /\ WF_vars(CollectChart(t))

Spec == Init /\ [][Next]_vars /\ Fairness

-----------------------------------------------------------------------------
(* Properties                                                              *)

\* ClusterTemplateValidator.ValidateDelete: a template a ClusterDeployment uses stays, though its
\* chains and its source may go.
UsedStays == \A c \in Cluster : used[c] # None => copy[used[c]].on

\* hasDistributedCopies: the source of a copy, and with it the chart the copy refers to, outlives
\* the copy, used or not, unless the source was removed between a chain pass's list and its write.
ChartOutlivesCopies == \A t \in Template : copy[t].on /\ ~copy[t].own => sys[t].on \/ t \in raced

\* reconcileObj: chains do not watch templates, templates do not watch charts, and still, once the
\* Management and a usable chart are there to stay, every template a chain supports ends up
\* distributed and valid.
EventuallyDistributed ==
    \A k \in Chain : \A t \in Supports[k] :
        <>[](mgmt /\ chain[k].on /\ sys[t].on /\ chart[t] = "ready")
            => <>[](copy[t].on /\ copy[t].valid)

\* AddOwnerReference: once no chain supports a template any more its copies go, even one written by
\* a pass of a chain that was already removed, unless a cluster uses it.
RemovedWithItsChains ==
    \A t \in Template :
        (copy[t].on /\ ~copy[t].own /\ \A k \in Chain : t \in Supports[k] => ~chain[k].on)
            ~> (~copy[t].on \/ \E c \in Cluster : used[c] = t)

\* The chains decide what a tenant has: what they support ends up there, what they no longer support
\* goes, whoever wrote last (reconcileObj, AddOwnerReference).
CopiesFollowChains == EventuallyDistributed /\ RemovedWithItsChains
=============================================================================
