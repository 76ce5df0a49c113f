---------------------------- MODULE Credentials ----------------------------
(***************************************************************************)
(* The Credential controller and the copies it keeps in a Region.          *)
(*                                                                         *)
(* A Credential names a ClusterIdentity; the identity names the Secrets it *)
(* needs.  For a regional (or AccessManagement-made) Credential, kcm reads *)
(* both from the management cluster, writes them into the Region with one  *)
(* label per Credential that needs them, and reports Ready.  When the      *)
(* Credential is deleted its label comes off every copy, and a copy no     *)
(* Credential needs any more is deleted.                                   *)
(*                                                                         *)
(* The controller has one worker: a pass is a sequence of API calls of one *)
(* Credential, between which users, the Region, a crash and lost calls may *)
(* come.  All Credentials here live in one Region, and all identities have *)
(* one kind.                                                               *)
(***************************************************************************)
EXTENDS Naturals

CONSTANTS
    Cred,       \* Credentials, all of one Region
    Identity,   \* ClusterIdentity objects (of one kind)
    Secret,     \* the Secrets identities refer to
    RefsOf,     \* [Identity -> SUBSET Secret]: the references the ProviderInterface declares
    StartRefs,  \* SUBSET [Cred -> Identity]: the identities Credentials may start with
    Preset,     \* objects that may exist in the Region before kcm writes there
    MaxVer,     \* bound: revisions of an object in the management cluster
    MaxEdits,   \* bound: what users and the Region do
    MaxFaults   \* bound: failed calls and crashes

ASSUME CredentialsAssumption ==
    /\ RefsOf \in [Identity -> SUBSET Secret]
    /\ StartRefs \subseteq [Cred -> Identity]
    /\ Identity \cap Secret = {}
    /\ Preset \subseteq Identity \cup Secret
    /\ MaxVer \in Nat \ {0} /\ MaxEdits \in Nat /\ MaxFaults \in Nat

VARIABLES
    cred,       \* the Credentials
    src,        \* revision of each object in the management cluster, 0 = absent
    copy,       \* the objects of the Region
    region,     \* the Region object and its API server
    queue,      \* the controller's workqueue
    w,          \* the worker's pass
    edits, faults,
    using,      \* history: the objects the last successful pass of a Credential saw in place
    unreleased, \* history: Credentials let go while their Region could not be reached
    torn        \* history: Credentials that had a Secret and no identity to find it by, or failed
                \* to release a Secret

vars == <<cred, src, copy, region, queue, w, edits, faults, using, unreleased, torn>>
hist == <<using, unreleased, torn>>

Object == Identity \cup Secret
RegionState == {"up", "down", "deleting", "gone"}
Idle == [op |-> "idle"]
Absent == [ver |-> 0, by |-> {}, managed |-> FALSE]

CopyPass ==
    [op : {"copy"}, c : Cred, ref : Identity, todo : SUBSET Object, ver : [Object -> 0..MaxVer],
     fresh : BOOLEAN]
ReleasePass ==
    [op : {"release"}, c : Cred, ids : SUBSET Identity, refs : SUBSET Secret, failed : BOOLEAN,
     fresh : BOOLEAN]

Needs(i) == RefsOf[i] \cup {i}
Exists(o) == copy[o].ver # 0

\* Revisions are never 0 and come back after MaxVer: only "is it the current one" matters.
NextRevision(v) == (v % MaxVer) + 1

TypeOK ==
    /\ cred \in [Cred -> [phase : {"live", "deleting", "gone"}, ref : Identity,
                          finalizer : BOOLEAN, ready : BOOLEAN]]
    /\ src \in [Object -> 0..MaxVer]
    /\ copy \in [Object -> [ver : 0..MaxVer, by : SUBSET Cred, managed : BOOLEAN]]
    /\ region \in RegionState
    /\ queue \subseteq Cred
    /\ w \in {Idle} \cup CopyPass \cup ReleasePass
    /\ edits \in 0..MaxEdits /\ faults \in 0..MaxFaults
    /\ using \in [Cred -> SUBSET Object] /\ unreleased \subseteq Cred /\ torn \subseteq Cred

Init ==
    /\ \E ref \in StartRefs :
          cred = [c \in Cred |-> [phase |-> "live", ref |-> ref[c], finalizer |-> FALSE, ready |-> FALSE]]
    /\ src = [o \in Object |-> 1]
    /\ \E pre \in SUBSET Preset :
          copy = [o \in Object |-> IF o \in pre THEN [Absent EXCEPT !.ver = 1] ELSE Absent]
    /\ region = "up"
    /\ queue = Cred /\ w = Idle
    /\ edits = 0 /\ faults = 0
    /\ using = [c \in Cred |-> {}] /\ unreleased = {} /\ torn = {}

-----------------------------------------------------------------------------
(* The calls of a pass.                                                    *)

\* ensureClusterIdentityObject: create; leave an object kcm does not manage alone; otherwise
\* overwrite the content, keep the other Credentials' labels and add this one.
Ensured(o, v, c) ==
    IF ~Exists(o) THEN [ver |-> v, by |-> {c}, managed |-> TRUE]
    ELSE IF ~copy[o].managed THEN copy[o]
    ELSE [copy[o] EXCEPT !.ver = v, !.by = @ \cup {c}]

\* Mutant: the object goes whoever else needs it.
ReleasedForAll(o, c) == Absent

\* releaseClusterIdentity: the label goes; the object goes with the last label.
Released(o, c) ==
    IF copy[o].by \ {c} = {} THEN Absent ELSE [copy[o] EXCEPT !.by = @ \ {c}]

\* The objects of a set that the List with this Credential's label returns.
Labelled(S, c) == {o \in S : Exists(o) /\ copy[o].managed /\ c \in copy[o].by}

\* A Secret with the Credential's label and no identity through which a release would find it: the
\* identity was not written, is not kcm's, or was removed by someone else.
Stranded(c) == Labelled(Secret, c) # {} /\ Labelled(Identity, c) = {}
StrandedOf(c) == IF Stranded(c) THEN {c} ELSE {}

\* Mutant: a pass that fails is forgotten.
Dropped(c) == w' = Idle /\ queue' = queue \ {c}

\* A pass that fails puts its Credential back on the (rate-limited) queue.
Retry(c) == w' = Idle /\ queue' = queue \cup {c}

\* updateStatus, deferred to the end of every pass: refused when the Credential changed since the
\* pass read it; a status that changes brings the event of its own update, and what was queued
\* meanwhile (rest) stays.
StatusWritten(c, fresh, ready, again, rest) ==
    /\ w' = Idle
    /\ cred' = IF fresh THEN [cred EXCEPT ![c].ready = ready] ELSE cred
    /\ queue' = IF ~fresh \/ again \/ ready # cred[c].ready THEN rest \cup {c} ELSE rest

\* The pass ends before it has done anything: Start has taken the Credential off the queue.
Ended(c, ready, again) ==
    /\ StatusWritten(c, TRUE, ready, again, queue \ {c})
    /\ UNCHANGED <<src, copy, region, edits, faults, hist>>

-----------------------------------------------------------------------------
(* update                                                                  *)

\* The finalizer is a pass of its own (as is a component label nothing here reads); the event of
\* that write brings the next pass.
AddFinalizer(c) ==
    /\ w = Idle /\ c \in queue /\ cred[c].phase = "live" /\ ~cred[c].finalizer
    /\ cred' = [cred EXCEPT ![c].finalizer = TRUE]
    /\ UNCHANGED <<src, copy, region, queue, w, edits, faults, hist>>

\* The Region is missing: not ready, and nothing to do until its event.  It is being deleted: not
\* ready, and an error.  It has no client: an error that leaves the condition alone.
NoRegion(c) ==
    /\ w = Idle /\ c \in queue /\ cred[c].phase = "live" /\ cred[c].finalizer
    /\ region # "up"
    /\ Ended(c, region = "down" /\ cred[c].ready, region # "gone")

\* collectClusterIdentities: an object that is missing in the management cluster fails the pass
\* before anything is written, and leaves the condition alone.
Collect(c) ==
    /\ w = Idle /\ c \in queue /\ cred[c].phase = "live" /\ cred[c].finalizer
    /\ region = "up"
    /\ LET i == cred[c].ref IN
       IF \E o \in Needs(i) : src[o] = 0
       THEN Ended(c, cred[c].ready, TRUE)
       ELSE /\ w' = [op |-> "copy", c |-> c, ref |-> i, todo |-> Needs(i),
                     ver |-> [o \in Object |-> IF o \in Needs(i) THEN src[o] ELSE 0], fresh |-> TRUE]
            /\ queue' = queue \ {c}
            /\ UNCHANGED <<cred, src, copy, region, edits, faults, hist>>

\* The references of an identity are written before the identity.
FirstOf(todo) == IF todo \subseteq Identity THEN todo ELSE todo \ Identity

\* CopyClusterIdentities: the references first, then the identity.  The client of the pass works on
\* whatever becomes of the Region object.
CopyOne ==
    /\ w.op = "copy" /\ w.todo # {}
    /\ \E o \in FirstOf(w.todo) :
          /\ copy' = [copy EXCEPT ![o] = Ensured(o, w.ver[o], w.c)]
          /\ w' = [w EXCEPT !.todo = @ \ {o}]
    /\ UNCHANGED <<cred, src, region, queue, edits, faults, hist>>

\* A call fails: the pass ends with the condition as it was.
CopyFails ==
    /\ w.op = "copy" /\ w.todo # {}
    /\ faults < MaxFaults /\ faults' = faults + 1
    /\ StatusWritten(w.c, w.fresh, cred[w.c].ready, TRUE, queue)
    /\ torn' = torn \cup StrandedOf(w.c)
    /\ UNCHANGED <<src, copy, region, edits, using, unreleased>>

\* The identity is read back from the Region: what is there decides Ready.
CheckIdentity ==
    /\ w.op = "copy" /\ w.todo = {}
    /\ LET c == w.c
           there == Exists(w.ref)
       IN /\ StatusWritten(c, w.fresh, there, ~there, queue)
          /\ using' = IF there /\ w.fresh
                      THEN [using EXCEPT ![c] = {o \in Needs(w.ref) : Exists(o)}] ELSE using
    /\ torn' = torn \cup StrandedOf(w.c)
    /\ UNCHANGED <<src, copy, region, edits, faults, unreleased>>

-----------------------------------------------------------------------------
(* delete                                                                  *)

FinalizerRemoved(c) == [cred EXCEPT ![c].phase = "gone", ![c].ready = FALSE]

\* No client for the Region: the finalizer goes without a release.
\* No identity carries the label: there is nothing to release.
LetGo(c) ==
    /\ w = Idle /\ c \in queue /\ cred[c].phase = "deleting"
    /\ \/ region \in {"down", "gone"} /\ unreleased' = unreleased \cup {c}
       \/ region \in {"up", "deleting"} /\ Labelled(Identity, c) = {} /\ UNCHANGED unreleased
    /\ cred' = FinalizerRemoved(c)
    /\ queue' = queue \ {c}
    /\ UNCHANGED <<src, copy, region, w, edits, faults, using, torn>>

\* ReleaseClusterIdentities lists the identities with the Credential's label, then, for the first
\* of them, the references with it.
BeginRelease(c) ==
    /\ w = Idle /\ c \in queue /\ cred[c].phase = "deleting"
    /\ region \in {"up", "deleting"} /\ Labelled(Identity, c) # {}
    /\ w' = [op |-> "release", c |-> c, ids |-> Labelled(Identity, c),
             refs |-> Labelled(Secret, c), failed |-> FALSE, fresh |-> TRUE]
    /\ queue' = queue \ {c}
    /\ UNCHANGED <<cred, src, copy, region, edits, faults, hist>>

\* Mutant: the identity before its references.
TurnIdentityFirst == IF w.ids # {} THEN w.ids ELSE w.refs

\* The objects the release may handle next: the references of an identity before the identity.
Turn == IF w.refs # {} THEN w.refs ELSE w.ids

\* One object is done with, well or not: an identity's turn ends with the listing of the next
\* identity's references.
Past(o, failed) ==
    IF o \in Secret THEN [w EXCEPT !.refs = @ \ {o}, !.failed = @ \/ failed]
    ELSE [w EXCEPT !.ids = @ \ {o}, !.failed = @ \/ failed,
                   !.refs = IF w.ids = {o} THEN @ ELSE @ \cup Labelled(Secret, w.c)]

ReleaseOne ==
    /\ w.op = "release" /\ (w.ids # {} \/ w.refs # {})
    /\ \E o \in Turn :
          /\ copy' = IF Exists(o) THEN [copy EXCEPT ![o] = Released(o, w.c)] ELSE copy
          /\ w' = Past(o, FALSE)
    /\ UNCHANGED <<cred, src, region, queue, edits, faults, hist>>

\* A call fails: the error is kept, and the release goes on with the next object.
ReleaseFails ==
    /\ w.op = "release" /\ (w.ids # {} \/ w.refs # {})
    /\ faults < MaxFaults /\ faults' = faults + 1
    /\ \E o \in Turn :
          /\ w' = Past(o, TRUE)
          /\ torn' = IF o \in Secret THEN torn \cup {w.c} ELSE torn
    /\ UNCHANGED <<cred, src, copy, region, queue, edits, using, unreleased>>

\* A release without an error removes the finalizer, unless the Credential changed meanwhile.
EndRelease ==
    /\ w.op = "release" /\ w.ids = {} /\ w.refs = {}
    /\ IF w.failed \/ ~w.fresh
       THEN Retry(w.c) /\ UNCHANGED cred
       ELSE /\ cred' = FinalizerRemoved(w.c) /\ w' = Idle
            /\ UNCHANGED queue
    /\ UNCHANGED <<src, copy, region, edits, faults, hist>>

-----------------------------------------------------------------------------
(* The queue, the periodic sync, and a restart of kcm.                     *)

\* A Credential that is gone is not found.
Forget(c) ==
    /\ w = Idle /\ c \in queue /\ cred[c].phase = "gone"
    /\ queue' = queue \ {c}
    /\ UNCHANGED <<cred, src, copy, region, w, edits, faults, hist>>

\* Mutant: nothing is armed.
NoSync(c) == FALSE /\ UNCHANGED vars

\* RequeueAfter(syncPeriod), armed by every pass that ends well; a Region that is gone leaves none.
Sync(c) ==
    /\ cred[c].phase = "live" /\ cred[c].finalizer /\ c \notin queue /\ region # "gone"
    /\ queue' = queue \cup {c}
    /\ UNCHANGED <<cred, src, copy, region, w, edits, faults, hist>>

\* What was queued or under way is lost; every Credential is listed again.
Restart ==
    /\ faults < MaxFaults /\ faults' = faults + 1
    /\ w' = Idle
    /\ queue' = {c \in Cred : cred[c].phase \in {"live", "deleting"}}
    /\ torn' = IF w.op = "copy" THEN torn \cup StrandedOf(w.c) ELSE torn
    /\ UNCHANGED <<cred, src, copy, region, edits, using, unreleased>>

-----------------------------------------------------------------------------
(* Users and the Region.                                                   *)

\* A Credential written while a pass of it runs: what the pass read is no longer current.
Touched(c) == IF w.op # "idle" /\ w.c = c THEN [w EXCEPT !.fresh = FALSE] ELSE w

Edit == edits < MaxEdits /\ edits' = edits + 1

\* The identity reference is mutable; the Region is not.
UserEdits(c) ==
    /\ Edit /\ cred[c].phase = "live"
    /\ \E i \in Identity \ {cred[c].ref} : cred' = [cred EXCEPT ![c].ref = i]
    /\ queue' = queue \cup {c} /\ w' = Touched(c)
    /\ UNCHANGED <<src, copy, region, faults, hist>>

UserDeletes(c) ==
    /\ cred[c].phase = "live"
    /\ cred' = [cred EXCEPT ![c].phase = IF cred[c].finalizer THEN "deleting" ELSE "gone"]
    /\ queue' = queue \cup {c} /\ w' = Touched(c)
    /\ using' = [using EXCEPT ![c] = {}]
    /\ UNCHANGED <<src, copy, region, edits, faults, unreleased, torn>>

\* An object of the management cluster is rewritten or removed; the controller does not watch it.
UserWritesSource(o) ==
    /\ Edit
    /\ \E v \in {0, NextRevision(src[o])} \ {src[o]} : src' = [src EXCEPT ![o] = v]
    /\ UNCHANGED <<cred, copy, region, queue, w, faults, hist>>

\* Someone removes an object in the Region.
UserRemovesCopy(o) ==
    /\ Edit /\ Exists(o)
    /\ copy' = [copy EXCEPT ![o] = Absent]
    /\ using' = [c \in Cred |-> using[c] \ {o}]
    /\ torn' = torn \cup {c \in Cred : Stranded(c)'}
    /\ UNCHANGED <<cred, src, region, queue, w, faults, unreleased>>

\* The Region's kubeconfig goes and comes back, the Region is deleted and made again.  The watch
\* answers a creation, a removal and a change of the Ready condition, and not the deletion mark.
RegionMoves(s) ==
    /\ IF region = "up" THEN Edit ELSE UNCHANGED edits
    /\ s \in CASE region = "up" -> {"down", "deleting"}
               [] region = "down" -> {"up"}
               [] region = "deleting" -> {"gone"}
               [] region = "gone" -> {"up"}
    /\ region' = s
    /\ queue' = IF s = "deleting" THEN queue
                ELSE queue \cup {c \in Cred : cred[c].phase \in {"live", "deleting"}}
    /\ UNCHANGED <<cred, src, copy, w, faults, hist>>

-----------------------------------------------------------------------------
Pass(c) == AddFinalizer(c) \/ NoRegion(c) \/ Collect(c) \/ LetGo(c) \/ BeginRelease(c) \/ Forget(c)

Work == CopyOne \/ CheckIdentity \/ ReleaseOne \/ EndRelease

Next ==
    \/ \E c \in Cred : Pass(c) \/ Sync(c) \/ UserEdits(c) \/ UserDeletes(c)
    \/ Work \/ CopyFails \/ ReleaseFails \/ Restart
    \/ \E o \in Object : UserWritesSource(o) \/ UserRemovesCopy(o)
    \/ \E s \in RegionState : RegionMoves(s)

\* The worker goes on with its pass, a timer fires, and the workqueue serves every item: an item
\* that fails again and again is delayed and does not keep the others out.
Fairness ==
    /\ WF_vars(Work)
    /\ \A c \in Cred : SF_vars(Pass(c)) /\ WF_vars(Sync(c))

Spec == Init /\ [][Next]_vars /\ Fairness

-----------------------------------------------------------------------------
(* Properties                                                              *)

\* ReleaseClusterIdentities: what the last successful pass of a Credential found in the Region
\* stays there until the Credential is deleted or somebody outside kcm removes it, whatever other
\* Credentials that share the identity or its Secret are copied or released meanwhile.
InUseStays == \A c \in Cred : \A o \in using[c] : Exists(o)

\* ReleaseClusterIdentities and delete: a Credential that is gone left no identity with its label,
\* whatever calls failed and whenever kcm restarted, and no Secret either if each of its Secrets
\* could be found through an identity of its own to the end.  Only a Region without a client
\* excuses it.
NothingLeftBehind ==
    \A c \in Cred \ unreleased : cred[c].phase = "gone" =>
        /\ Labelled(Identity, c) = {}
        /\ c \notin torn => Labelled(Secret, c) = {}

\* syncPeriod: sources are not watched, and still the Region ends up with the current revision of
\* everything a Credential that stays needs, or with an object that is not kcm's, and the
\* Credential ends up ready.
Calm(c) ==
    cred[c].phase = "live" /\ region = "up" /\ \A o \in Needs(cred[c].ref) : src[o] # 0
Settled(c) ==
    /\ cred[c].ready
    /\ \A o \in Needs(cred[c].ref) :
          Exists(o) /\ (copy[o].managed => copy[o].ver = src[o] /\ c \in copy[o].by)
CopiesFollow == \A c \in Cred : <>[]Calm(c) => <>[]Settled(c)

\* delete: failed releases, an unreachable Region and restarts delay a deletion and never block it.
DeletionEnds == \A c \in Cred : cred[c].phase = "deleting" ~> cred[c].phase = "gone"
=============================================================================
