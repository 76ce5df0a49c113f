-------------------------- MODULE ManagementBackup --------------------------
(***************************************************************************)
(* A ManagementBackup, made once or on a cron schedule: velero Backups are *)
(* created on the management cluster and then on the cluster of each       *)
(* Region that ClusterDeployments use, and their progress is collected     *)
(* into its status.  The upgrade of the Management object waits for that   *)
(* status (module Management).  The object may itself be restored.         *)
(*                                                                         *)
(* A velero Backup of a schedule is named by the second of its creation,   *)
(* one that is made once by the object.  A pass creates the Backups one by *)
(* one and then writes the status; velero, users, the clock and the        *)
(* Regions move between two of these calls.                                *)
(***************************************************************************)
EXTENDS Integers, FiniteSets

CONSTANTS
    Mgmt,      \* the management cluster
    Region,    \* names of Regions
    Period,    \* of the schedule, in seconds
    MaxTime,   \* bound on the clock
    MaxEdits,  \* bound on the changes of which Regions are used
    MaxFaults  \* bound on failed calls, restarts and restorations

ASSUME ManagementBackupAssumption ==
    /\ Mgmt \notin Region
    /\ Period \in Nat \ {0} /\ MaxTime \in Nat \ {0}
    /\ MaxEdits \in Nat /\ MaxFaults \in Nat

Cluster == {Mgmt} \union Region
Time    == 1 .. MaxTime
Once    == 1                  \* the name of a Backup that is made once

VARIABLES
    kind, created,       \* single or schedule; creation of the object
    labelled, restored,  \* labels: component, and those velero leaves
    st,                  \* status: one entry for each cluster
    velero,              \* velero Backups: <<cluster, name>> -> phase
    used, loaded,        \* Regions of ClusterDeployments, Regions that exist
    clock,
    queued,              \* is the object to be reconciled?
    pc, at, work, todo,  \* a pass: next call, time, new status, Regions left
    covered,             \* history: Regions the status was first written with
    edits, faults

object == <<kind, created, labelled, restored>>
scope  == <<used, loaded>>
pass   == <<pc, at, work, todo>>
bounds == <<edits, faults>>
vars   == <<object, st, velero, scope, clock, queued, pass, covered, bounds>>

(* ManagementBackupSingleStatus: is there an entry, the name and time of   *)
(* the last Backup, the phase of the last Backup, and an error.            *)
Entry     == [on : BOOLEAN, name : 0 .. MaxTime, time : 0 .. MaxTime,
              last : {"nil", "fresh", "running", "done"}, err : BOOLEAN]
Blank(on) == [on |-> on, name |-> 0, time |-> 0, last |-> "nil", err |-> FALSE]
Empty     == [c \in Cluster |-> IF c = Mgmt THEN Blank(TRUE) ELSE Blank(FALSE)]

Schedule == kind = "schedule"
Fault    == faults < MaxFaults /\ faults' = faults + 1
Edit     == edits < MaxEdits /\ edits' = edits + 1
Idle     == pc' = "idle" /\ at' = 0 /\ work' = Empty /\ todo' = {}

Init ==
    /\ kind \in {"single", "schedule"}
    /\ created = 1
    /\ labelled = FALSE /\ restored = FALSE
    /\ st = Empty
    /\ velero = [x \in Cluster \X Time |-> "none"]
    /\ used \in SUBSET Region
    /\ loaded = Region
    /\ clock = 1
    /\ queued = TRUE
    /\ pc = "idle" /\ at = 0 /\ work = Empty /\ todo = {}
    /\ covered = {}
    /\ edits = 0 /\ faults = 0

-----------------------------------------------------------------------------
(* What the status says *)

(* Mutant: the management cluster decides for the Regions.                 *)
ManagementCompleted(s) == s[Mgmt].last = "done"

(* IsCompleted: a Backup that failed is completed as well.                 *)
IsCompleted(s) == \A c \in Cluster : s[c].on => s[c].last = "done"

AllBackupsInitiated == \A c \in Cluster : st[c].on => st[c].name # 0

AnyBackupInitiated == \E c \in Cluster : st[c].name # 0

LastTime == IF st[Mgmt].time = 0 THEN created ELSE st[Mgmt].time

(* Mutant: the next slot begins with the next tick.                        *)
NextSecond(t) == t + 1

(* cronSchedule.Next *)
NextSlot(t) == (t \div Period + 1) * Period

(* Mutant: due at the very time of the slot.                               *)
DueAtTheSlot == clock = NextSlot(LastTime)

(* getNextAttemptTime *)
IsDue == clock >= NextSlot(LastTime)

(* areAnyBackupsProgressing: a Backup that velero has not looked at yet    *)
(* has no phase and does not count; nor does one of a Region that is gone. *)
AnyBackupsProgressing ==
    \E c \in {Mgmt} \union (used \cap loaded), t \in Time : velero[<<c, t>>] = "running"

-----------------------------------------------------------------------------
(* A pass *)

(* The name of the Backup: TimestampedBackupName, or that of the object.   *)
BackupName == IF Schedule THEN at ELSE Once

(* Mutant: the Backups of the Regions are not collected.                   *)
UpdateManagementOnly ==
    /\ st' = [st EXCEPT ![Mgmt].last = IF st[Mgmt].name = 0 THEN @ ELSE velero[<<Mgmt, st[Mgmt].name>>]]
    /\ queued' = (st' # st)

(* updateAllBackupsStatus: the Backups of the clusters that are in use     *)
(* now.  The one of a Region that is gone is looked up on the management   *)
(* cluster; when it is not there the pass is repeated, and changes nothing.*)
UpdateAllBackupsStatus ==
    /\ st' = [c \in Cluster |->
                IF c \in {Mgmt} \union used /\ st[c].name # 0
                THEN [st[c] EXCEPT !.last = velero[<<c, st[c].name>>]]
                ELSE st[c]]
    /\ queued' = (st' # st)

(* createAllScheduledBackups, createAllSingleBackups: the latter skips     *)
(* what is in the status already.                                          *)
CreateAllBackups ==
    /\ at' = clock
    /\ work' = st
    /\ todo' = {r \in used \cap loaded : Schedule \/ st[r].name = 0}
    /\ pc' = IF Schedule \/ st[Mgmt].name = 0 THEN "management" ELSE "regions"
    /\ queued' = FALSE
    /\ UNCHANGED st

(* handleScheduledBackup, and a single backup that is not initiated.       *)
OkayToCreate ==
    IF Schedule THEN IsDue /\ ~AnyBackupsProgressing ELSE ~AllBackupsInitiated

(* ReconcileBackup: the scope, with its clients, is that of the beginning. *)
Reconcile ==
    /\ queued /\ pc = "idle" /\ labelled /\ ~restored
    /\ \/ OkayToCreate /\ CreateAllBackups
       \/ /\ ~OkayToCreate /\ (~Schedule \/ AnyBackupInitiated)
          /\ UpdateAllBackupsStatus
          /\ UNCHANGED pass
       \/ /\ ~OkayToCreate /\ Schedule /\ ~AnyBackupInitiated
          /\ queued' = FALSE
          /\ UNCHANGED <<st, pass>>
    /\ UNCHANGED <<object, velero, scope, clock, covered, bounds>>

(* AddKCMComponentLabel: an update of its own.                             *)
AddLabel ==
    /\ queued /\ pc = "idle" /\ ~labelled
    /\ labelled' = TRUE
    /\ UNCHANGED <<kind, created, restored, st, velero, scope, clock, queued, pass, covered, bounds>>

(* getMostRecentlyProducedBackup, or the one of this name; 0 if none.      *)
Latest(c) ==
    LET made == {t \in Time : velero[<<c, t>>] # "none"}
    IN  IF made = {} THEN 0 ELSE CHOOSE t \in made : \A u \in made : u <= t

FromBackup(c) ==
    [on |-> TRUE, name |-> Latest(c), time |-> IF Schedule THEN Latest(c) ELSE clock,
     last |-> velero[<<c, Latest(c)>>], err |-> FALSE]

(* updateAfterRestoration: the status is filled from the velero Backups,   *)
(* and the labels are removed.  For a Region that does not exist (yet) the *)
(* list of the management cluster is meant, but it is the list of whichever*)
(* Region came before it: its Backups may be found there or not.           *)
UpdateAfterRestoration ==
    /\ queued /\ pc = "idle" /\ labelled /\ restored
    /\ \E found \in SUBSET (used \ loaded) :
          st' = [c \in Cluster |->
                   IF /\ c \in {Mgmt} \union (used \cap loaded) \union found
                      /\ Latest(c) # 0
                   THEN FromBackup(c) ELSE st[c]]
    /\ restored' = FALSE
    /\ covered' = {}
    /\ UNCHANGED <<kind, created, labelled, velero, scope, clock, queued, pass, bounds>>

Created(c) ==
    velero' = [velero EXCEPT ![<<c, BackupName>>] = IF @ = "none" THEN "fresh" ELSE @]

(* The status keeps the phase of the Backup before, until it is collected. *)
Recorded(c) ==
    work' = [work EXCEPT ![c] = [on |-> TRUE, name |-> BackupName, time |-> at,
                                 last |-> @.last, err |-> FALSE]]

CreateManagementBackup ==
    /\ pc = "management"
    /\ Created(Mgmt) /\ Recorded(Mgmt)
    /\ pc' = "regions"
    /\ UNCHANGED <<object, st, scope, clock, queued, at, todo, covered, bounds>>

(* propagateMetaError: velero is not installed.  The status is an event.   *)
PropagateMetaError ==
    /\ pc = "management" /\ Fault
    /\ st' = [st EXCEPT ![Mgmt] = [@ EXCEPT !.err = TRUE]]
    /\ queued' = (st' # st)
    /\ Idle
    /\ UNCHANGED <<object, velero, scope, clock, covered, edits>>

CreateRegionalBackup(r) ==
    /\ pc = "regions" /\ r \in todo
    /\ Created(r) /\ Recorded(r)
    /\ todo' = todo \ {r}
    /\ UNCHANGED <<object, st, scope, clock, queued, pc, at, covered, bounds>>

(* setError: the others are still made.                                    *)
RegionalBackupFails(r) ==
    /\ pc = "regions" /\ r \in todo /\ Fault
    /\ work' = [work EXCEPT ![r] = [@ EXCEPT !.on = TRUE, !.err = TRUE]]
    /\ todo' = todo \ {r}
    /\ UNCHANGED <<object, st, velero, scope, clock, queued, pc, at, covered, edits>>

UpdateStatus ==
    /\ pc = "regions" /\ todo = {}
    /\ st' = work
    /\ covered' = IF covered = {} THEN {r \in Region : work[r].on} ELSE covered
    /\ queued' = (queued \/ st' # st)
    /\ Idle
    /\ UNCHANGED <<object, velero, scope, clock, bounds>>

(* A call fails, or the process ends: what was created stays.              *)
PassFails ==
    /\ pc # "idle" /\ Fault
    /\ queued' = TRUE
    /\ Idle
    /\ UNCHANGED <<object, st, velero, scope, clock, covered, edits>>

(* EnqueueScheduledOrIncomplete, every minute.                             *)
EnqueueScheduledOrIncomplete ==
    /\ ~queued /\ (Schedule \/ ~IsCompleted(st))
    /\ queued' = TRUE
    /\ UNCHANGED <<object, st, velero, scope, clock, pass, covered, bounds>>

-----------------------------------------------------------------------------
(* The clock, velero, users *)

Tick ==
    /\ clock < MaxTime
    /\ clock' = clock + 1
    /\ UNCHANGED <<object, st, velero, scope, queued, pass, covered, bounds>>

VeleroMoves(c, t) ==
    /\ velero[<<c, t>>] \in {"fresh", "running"}
    /\ velero' = [velero EXCEPT ![<<c, t>>] = IF @ = "fresh" THEN "running" ELSE "done"]
    /\ UNCHANGED <<object, st, scope, clock, queued, pass, covered, bounds>>

(* ClusterDeployments of a Region come, and the last one goes.             *)
UseRegion(r) ==
    /\ Edit
    /\ used' = IF r \in used THEN used \ {r} ELSE used \union {r}
    /\ UNCHANGED <<object, st, velero, loaded, clock, queued, pass, covered, faults>>

(* The management cluster is restored from a Backup: velero knows the ones *)
(* in the storage, the object has no status, and Regions come later.       *)
Restore ==
    /\ Fault
    /\ \E t \in Time : velero[<<Mgmt, t>>] = "done"
    /\ created' = clock
    /\ restored' = TRUE
    /\ st' = Empty
    /\ velero' = [x \in Cluster \X Time |->
                    IF x[1] = Mgmt /\ velero[x] # "done" THEN "none" ELSE velero[x]]
    /\ loaded' \in SUBSET loaded
    /\ queued' = TRUE
    /\ covered' = {}
    /\ Idle
    /\ UNCHANGED <<kind, labelled, used, clock, edits>>

RegionComesBack(r) ==
    /\ r \notin loaded
    /\ loaded' = loaded \union {r}
    /\ UNCHANGED <<object, st, velero, used, clock, queued, pass, covered, bounds>>

-----------------------------------------------------------------------------
Step ==
    \/ Reconcile \/ AddLabel \/ UpdateAfterRestoration
    \/ CreateManagementBackup \/ UpdateStatus
    \/ \E r \in Region : CreateRegionalBackup(r)

Next ==
    \/ Step \/ PropagateMetaError \/ PassFails \/ EnqueueScheduledOrIncomplete
    \/ Tick \/ Restore
    \/ \E c \in Cluster, t \in Time : VeleroMoves(c, t)
    \/ \E r \in Region : RegionalBackupFails(r) \/ UseRegion(r) \/ RegionComesBack(r)

Spec == Init /\ [][Next]_vars

(* The queue is worked on, the runner runs, velero does its part, and the  *)
(* Regions of a restored cluster come back.                                *)
Fairness ==
    /\ WF_vars(Step) /\ WF_vars(EnqueueScheduledOrIncomplete)
    /\ \A c \in Cluster, t \in Time : WF_vars(VeleroMoves(c, t))
    /\ \A r \in Region : WF_vars(RegionComesBack(r))

FairSpec == Spec /\ Fairness

-----------------------------------------------------------------------------
(* Properties *)

TypeOK ==
    /\ kind \in {"single", "schedule"} /\ created \in Time
    /\ labelled \in BOOLEAN /\ restored \in BOOLEAN
    /\ st \in [Cluster -> Entry] /\ work \in [Cluster -> Entry]
    /\ velero \in [Cluster \X Time -> {"none", "fresh", "running", "done"}]
    /\ used \subseteq Region /\ loaded \subseteq Region
    /\ clock \in Time /\ at \in 0 .. MaxTime
    /\ queued \in BOOLEAN
    /\ pc \in {"idle", "management", "regions"}
    /\ todo \subseteq Region /\ covered \subseteq Region
    /\ edits \in 0 .. MaxEdits /\ faults \in 0 .. MaxFaults

(* What the status names has been created, though the Backups of several   *)
(* clusters are created before it is written and any of the calls fails.   *)
NamedExists ==
    \A c \in Cluster : st[c].name # 0 => velero[<<c, st[c].name>>] # "none"

(* The upgrade of the Management object may rely on IsCompleted: then the  *)
(* Backups of the management cluster and of every Region that was in use   *)
(* when the single backup was made have ended.                             *)
CompletedIsTrue ==
    ~Schedule /\ IsCompleted(st) =>
        \A c \in {Mgmt} \union covered : \E t \in Time : velero[<<c, t>>] = "done"

(* What the status says of the Backups is true between all the calls that  *)
(* make them.                                                              *)
BackupInv == TypeOK /\ NamedExists /\ CompletedIsTrue

(* A slot of the schedule has one Backup on the management cluster, and    *)
(* one more for every pass that failed after creating it.                  *)
OncePerSlot ==
    Schedule => \A k \in 0 .. MaxTime :
        Cardinality({t \in Time : t \div Period = k /\ velero[<<Mgmt, t>>] # "none"}) <= 1 + faults

(* A schedule that is due is served, whatever failed and however long the  *)
(* Backups before took.                                                    *)
DueIsServed ==
    (Schedule /\ clock >= NextSlot(LastTime)) ~> (clock < NextSlot(LastTime))

(* A single backup is completed in the end, and with it the wait of the    *)
(* upgrade, as long as the Regions it was made for are still used: the     *)
(* entries of the others are not updated.                                  *)
SingleCompletes ==
    <>[](~Schedule /\ (\A r \in Region : st[r].on => r \in used) => IsCompleted(st))

(* updateAllBackupsStatus updates the status of all existing backups, so   *)
(* that a single backup is completed when velero is done.                  *)
AllAreCollected == <>[](~Schedule => IsCompleted(st))
=============================================================================
