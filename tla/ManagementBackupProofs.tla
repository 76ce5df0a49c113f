----------------------- MODULE ManagementBackupProofs -----------------------
(***************************************************************************)
(* BackupInv and OncePerSlot of module ManagementBackup, for any Regions,  *)
(* period, time and number of changes and faults.  Neither is inductive:   *)
(* the status is what a pass has in memory when it ends, and its phases    *)
(* are copied from the velero Backups it names.  BackupIInv says the same  *)
(* of the memory of the pass, and that entries, once there, stay; SlotInv  *)
(* relates the Backups of a slot to the time the status knows.             *)
(***************************************************************************)
EXTENDS ManagementBackup, NaturalsInduction, WellFoundedInduction, FiniteSetTheorems, TLAPS

VPhase == {"none", "fresh", "running", "done"}

(* A Backup of the cluster has ended.                                      *)
Ended(c) == \E t \in Time : velero[<<c, t>>] = "done"

(* A pass under way knows its time, names what exists, forgets no entry.   *)
PassInv ==
    pc # "idle" =>
        /\ at \in Time
        /\ \A c \in Cluster : /\ work[c].name # 0 => velero[<<c, work[c].name>>] # "none"
                              /\ st[c].on => work[c].on

(* An entry says done of a cluster where a Backup has ended, and the       *)
(* Regions the status was first written with keep their entries.           *)
DoneInv ==
    /\ \A c \in Cluster : st[c].last = "done" \/ work[c].last = "done" => Ended(c)
    /\ \A c \in {Mgmt} \union covered : st[c].on

BackupIInv == TypeOK /\ NamedExists /\ PassInv /\ DoneInv

-----------------------------------------------------------------------------
(* What the operators return                                               *)

LEMMA Constants ==
    /\ Mgmt \in Cluster /\ Region \subseteq Cluster
    /\ Once \in Time /\ Empty \in [Cluster -> Entry]
    /\ \A c \in Cluster : /\ Empty[c].name = 0 /\ Empty[c].last = "nil"
                          /\ Empty[c].on <=> c = Mgmt
BY ManagementBackupAssumption DEF Cluster, Time, Once, Empty, Blank, Entry

(* A non-empty set of times has a last one.                                *)
LEMMA LastOne ==
    ASSUME NEW S \in SUBSET Time, S # {}
    PROVE  \E t \in S : \A u \in S : u <= t
<1> DEFINE T == {MaxTime - t : t \in S}
           R == OpToRel(<, Nat)
<1>1. T \subseteq Nat /\ T # {}
  <2>1. \A t \in S : MaxTime - t \in Nat
    BY ManagementBackupAssumption DEF Time
  <2>2. PICK t \in S : TRUE
    OBVIOUS
  <2>3. MaxTime - t \in T
    BY <2>2
  <2> QED
    BY <2>1, <2>3
<1>2. IsWellFoundedOn(R, Nat)
  BY NatLessThanWellFounded, Zenon
<1>b. R = {ss \in Nat \X Nat : ss[1] < ss[2]}
  BY Zenon DEF OpToRel
<1> HIDE DEF R, T
<1>a. PICK x \in T : \A y \in T : <<y, x>> \notin R
  BY <1>1, <1>2, WFMin
<1>3. \A y \in T : ~(y < x)
  BY <1>1, <1>b, <1>a
<1>4. PICK t \in S : x = MaxTime - t
  BY DEF T
<1>5. ASSUME NEW u \in S PROVE u <= t
  <2>1. MaxTime - u \in T /\ ~(MaxTime - u < x)
    BY <1>3 DEF T
  <2> QED
    BY <2>1, <1>4, ManagementBackupAssumption DEF Time
<1> QED
  BY <1>4, <1>5

LEMMA LatestExists ==
    ASSUME TypeOK, NEW c \in Cluster, Latest(c) # 0
    PROVE  /\ Latest(c) \in Time /\ velero[<<c, Latest(c)>>] # "none"
           /\ \A u \in Time : velero[<<c, u>>] # "none" => u <= Latest(c)
<1> DEFINE made == {t \in Time : velero[<<c, t>>] # "none"}
<1>1. made # {} /\ Latest(c) = CHOOSE t \in made : \A u \in made : u <= t
  BY DEF Latest
<1>2. \E t \in made : \A u \in made : u <= t
  BY <1>1, LastOne
<1>3. Latest(c) \in made /\ \A u \in made : u <= Latest(c)
  BY <1>1, <1>2
<1> QED
  BY <1>3

(* The entry a Backup leaves in the memory of the pass.                    *)
LEMMA RecordedEntry ==
    ASSUME TypeOK, PassInv, pc # "idle", NEW c \in Cluster, Recorded(c)
    PROVE  /\ BackupName \in Time
           /\ work' \in [Cluster -> Entry]
           /\ work'[c].on /\ work'[c].name = BackupName /\ work'[c].last = work[c].last
           /\ \A d \in Cluster \ {c} : work'[d] = work[d]
<1>1. BackupName \in Time
  BY Constants DEF BackupName, PassInv
<1>2. work[c] \in Entry /\ work \in [Cluster -> Entry] /\ at \in 0 .. MaxTime
  BY DEF TypeOK
<1>3. work' = [work EXCEPT ![c] = [on |-> TRUE, name |-> BackupName, time |-> at,
                                   last |-> work[c].last, err |-> FALSE]]
  BY <1>2 DEF Recorded, Entry
<1>4. [on |-> TRUE, name |-> BackupName, time |-> at, last |-> work[c].last, err |-> FALSE] \in Entry
  BY <1>1, <1>2 DEF Entry, Time
<1> QED
  BY <1>1, <1>2, <1>3, <1>4

LEMMA CreatedBackup ==
    ASSUME TypeOK, NEW c \in Cluster, Created(c), BackupName \in Time
    PROVE  /\ velero' \in [Cluster \X Time -> VPhase]
           /\ velero'[<<c, BackupName>>] # "none"
           /\ \A d \in Cluster, t \in Time :
                 /\ velero[<<d, t>>] # "none" => velero'[<<d, t>>] # "none"
                 /\ velero[<<d, t>>] = "done" => velero'[<<d, t>>] = "done"
BY DEF TypeOK, Created, VPhase

-----------------------------------------------------------------------------
(* The parts of a pass                                                     *)

(* Nothing changed of the status, the memory and the Backups: the others   *)
(* do not matter.                                                          *)
LEMMA Untouched ==
    ASSUME BackupIInv, UNCHANGED <<st, velero, pc, at, work, covered>>
    PROVE  NamedExists' /\ PassInv' /\ DoneInv'
BY DEF BackupIInv, NamedExists, PassInv, DoneInv, Ended

LEMMA AfterIdle ==
    ASSUME BackupIInv, Idle, UNCHANGED <<st, velero, covered>>
    PROVE  /\ pc' \in {"idle", "management", "regions"} /\ at' \in 0 .. MaxTime
           /\ work' \in [Cluster -> Entry] /\ todo' \subseteq Region
           /\ NamedExists' /\ PassInv' /\ DoneInv'
BY Constants, ManagementBackupAssumption
   DEF BackupIInv, Idle, NamedExists, PassInv, DoneInv, Ended

(* The phases collected are those of Backups that exist.                   *)
LEMMA Collected ==
    ASSUME BackupIInv, UpdateAllBackupsStatus
    PROVE  /\ st' \in [Cluster -> Entry]
           /\ \A c \in Cluster : /\ st'[c].on = st[c].on /\ st'[c].name = st[c].name
                                 /\ st'[c].last = "done" => Ended(c)
<1>1. ASSUME NEW c \in Cluster
      PROVE  /\ st'[c] \in Entry
             /\ st'[c].on = st[c].on /\ st'[c].name = st[c].name
             /\ st'[c].last = "done" => Ended(c)
  <2>1. st[c] \in Entry
    BY DEF BackupIInv, TypeOK
  <2>2. CASE c \in {Mgmt} \union used /\ st[c].name # 0
    <3>1. st[c].name \in Time
      BY <2>1, <2>2 DEF Entry, Time
    <3>2. velero[<<c, st[c].name>>] \in VPhase \ {"none"}
      BY <3>1, <2>2 DEF BackupIInv, TypeOK, NamedExists, VPhase
    <3>3. st'[c] = [st[c] EXCEPT !.last = velero[<<c, st[c].name>>]]
      BY <2>2 DEF UpdateAllBackupsStatus
    <3>4. /\ st'[c] \in Entry /\ st'[c].on = st[c].on /\ st'[c].name = st[c].name
          /\ st'[c].last = velero[<<c, st[c].name>>]
      BY <2>1, <3>2, <3>3 DEF Entry, VPhase
    <3> QED
      BY <3>1, <3>4 DEF Ended
  <2>3. CASE ~(c \in {Mgmt} \union used /\ st[c].name # 0)
    <3>1. st'[c] = st[c]
      BY <2>3 DEF UpdateAllBackupsStatus
    <3> QED
      BY <2>1, <3>1 DEF BackupIInv, DoneInv
  <2> QED
    BY <2>2, <2>3
<1>2. st' \in [Cluster -> Entry]
  BY <1>1 DEF UpdateAllBackupsStatus
<1> QED
  BY <1>1, <1>2

(* Backups that exist go on to exist, and one that has ended stays.        *)
Kept ==
    /\ velero' \in [Cluster \X Time -> VPhase]
    /\ \A c \in Cluster, t \in Time :
          /\ velero[<<c, t>>] # "none" => velero'[<<c, t>>] # "none"
          /\ velero[<<c, t>>] = "done" => velero'[<<c, t>>] = "done"

LEMMA BackupsKept ==
    ASSUME BackupIInv, Kept, UNCHANGED <<st, covered, at>>,
           pc' # "idle" => pc # "idle",
           \A c \in Cluster :
              \/ work'[c] = work[c]
              \/ /\ pc # "idle"
                 /\ work'[c].on /\ work'[c].last = work[c].last
                 /\ work'[c].name # 0 => velero'[<<c, work'[c].name>>] # "none"
    PROVE  NamedExists' /\ PassInv' /\ DoneInv'
<1>t. /\ st \in [Cluster -> Entry] /\ work \in [Cluster -> Entry]
      /\ \A c \in Cluster : /\ st[c].name # 0 => st[c].name \in Time
                            /\ work[c].name # 0 => work[c].name \in Time
  BY DEF BackupIInv, TypeOK, Entry, Time
<1>1. NamedExists'
  BY <1>t DEF BackupIInv, NamedExists, Kept
<1>2. PassInv'
  BY <1>t DEF BackupIInv, PassInv, Kept
<1>3. \A c \in Cluster : Ended(c) => Ended(c)'
  BY DEF Ended, Kept
<1>4. DoneInv'
  BY <1>3 DEF BackupIInv, DoneInv
<1> QED
  BY <1>1, <1>2, <1>4

LEMMA RecordedKept ==
    ASSUME BackupIInv, Kept, UNCHANGED <<st, covered, at>>, pc # "idle", NEW c \in Cluster,
           velero'[<<c, BackupName>>] # "none",
           work'[c].on, work'[c].name = BackupName, work'[c].last = work[c].last,
           \A d \in Cluster \ {c} : work'[d] = work[d]
    PROVE  NamedExists' /\ PassInv' /\ DoneInv'
BY BackupsKept

-----------------------------------------------------------------------------
(* Induction                                                               *)

LEMMA BackupInit == Init => BackupIInv
<1> SUFFICES ASSUME Init PROVE BackupIInv
  OBVIOUS
<1>1. TypeOK
  <2>1. velero \in [Cluster \X Time -> {"none", "fresh", "running", "done"}]
    BY DEF Init
  <2>2. /\ 1 \in Time /\ 0 \in 0 .. MaxTime
        /\ 0 \in 0 .. MaxEdits /\ 0 \in 0 .. MaxFaults
    BY ManagementBackupAssumption DEF Time
  <2>3. /\ kind \in {"single", "schedule"} /\ created \in Time
        /\ labelled \in BOOLEAN /\ restored \in BOOLEAN /\ queued \in BOOLEAN
        /\ used \subseteq Region /\ loaded \subseteq Region
        /\ clock \in Time /\ at \in 0 .. MaxTime
        /\ pc \in {"idle", "management", "regions"}
        /\ todo \subseteq Region /\ covered \subseteq Region
        /\ edits \in 0 .. MaxEdits /\ faults \in 0 .. MaxFaults
    BY <2>2 DEF Init
  <2>4. st \in [Cluster -> Entry] /\ work \in [Cluster -> Entry]
    BY Constants DEF Init
  <2> QED
    BY <2>1, <2>3, <2>4 DEF TypeOK
<1>2. NamedExists /\ PassInv /\ DoneInv
  BY Constants DEF Init, NamedExists, PassInv, DoneInv
<1> QED
  BY <1>1, <1>2 DEF BackupIInv

LEMMA StepInductive == BackupIInv /\ Step => BackupIInv'
<1> SUFFICES ASSUME BackupIInv, Step PROVE BackupIInv'
  OBVIOUS
<1> USE ManagementBackupAssumption
<1>t. TypeOK /\ NamedExists /\ PassInv /\ DoneInv
  BY DEF BackupIInv
<1>1. CASE Reconcile
  <2>1. CASE OkayToCreate /\ CreateAllBackups
    <3>1. UNCHANGED <<object, velero, scope, clock, covered, bounds, st>>
      BY <1>1, <2>1 DEF Reconcile, CreateAllBackups
    <3>2. at' = clock /\ work' = st /\ todo' \subseteq Region /\ queued' = FALSE
          /\ pc' \in {"management", "regions"}
      BY <1>t, <2>1 DEF CreateAllBackups, TypeOK
    <3>3. TypeOK'
      <4>1. at' \in 0 .. MaxTime
        BY <1>t, <3>2 DEF TypeOK, Time
      <4> QED
        BY <1>t, <3>1, <3>2, <4>1 DEF TypeOK, object, scope, bounds
    <3>4. NamedExists' /\ PassInv' /\ DoneInv'
      BY <1>t, <3>1, <3>2 DEF TypeOK, NamedExists, PassInv, DoneInv, Ended
    <3> QED
      BY <3>3, <3>4 DEF BackupIInv
  <2>2. CASE UpdateAllBackupsStatus /\ UNCHANGED pass
    <3>1. UNCHANGED <<object, velero, scope, clock, covered, bounds, pc, at, work, todo>> /\ pc = "idle"
      BY <1>1, <2>2 DEF Reconcile, pass
    <3>2. queued' \in BOOLEAN
      BY <2>2 DEF UpdateAllBackupsStatus
    <3>3. TypeOK'
      BY <1>t, <2>2, <3>1, <3>2, Collected DEF TypeOK, object, scope, bounds
    <3>4. NamedExists' /\ PassInv'
      BY <1>t, <2>2, <3>1, Collected DEF TypeOK, NamedExists, PassInv
    <3>5. \A c \in {Mgmt} \union covered : c \in Cluster
      BY <1>t, Constants DEF TypeOK
    <3>6. DoneInv'
      BY <1>t, <2>2, <3>1, <3>5, Collected DEF DoneInv, Ended
    <3> QED
      BY <3>3, <3>4, <3>6 DEF BackupIInv
  <2>3. CASE queued' = FALSE /\ UNCHANGED <<st, pass>>
    <3>1. UNCHANGED <<object, velero, scope, clock, covered, bounds, st, pc, at, work, todo>>
      BY <1>1, <2>3 DEF Reconcile, pass
    <3>2. TypeOK'
      BY <1>t, <2>3, <3>1 DEF TypeOK, object, scope, bounds
    <3> QED
      BY <3>1, <3>2, Untouched DEF BackupIInv
  <2> QED
    BY <1>1, <2>1, <2>2, <2>3 DEF Reconcile
<1>2. CASE AddLabel
  <2>1. TypeOK'
    BY <1>t, <1>2 DEF TypeOK, AddLabel, scope, pass, bounds
  <2>2. UNCHANGED <<st, velero, pc, at, work, covered>>
    BY <1>2 DEF AddLabel, pass
  <2> QED
    BY <2>1, <2>2, Untouched DEF BackupIInv
<1>3. CASE UpdateAfterRestoration
  <2>1. UNCHANGED <<kind, created, labelled, velero, scope, clock, queued, pc, at, work, todo, bounds>>
        /\ restored' = FALSE /\ covered' = {} /\ pc = "idle"
    BY <1>3 DEF UpdateAfterRestoration, pass
  <2>2. PICK found \in SUBSET (used \ loaded) :
          st' = [c \in Cluster |->
                   IF /\ c \in {Mgmt} \union (used \cap loaded) \union found
                      /\ Latest(c) # 0
                   THEN FromBackup(c) ELSE st[c]]
    BY <1>3 DEF UpdateAfterRestoration
  <2>3. ASSUME NEW c \in Cluster
        PROVE  /\ st'[c] \in Entry
               /\ st'[c].name # 0 => velero[<<c, st'[c].name>>] # "none"
               /\ st'[c].last = "done" => Ended(c)
               /\ st[c].on => st'[c].on
    <3>1. CASE st'[c] = FromBackup(c) /\ Latest(c) # 0
      <4>1. Latest(c) \in Time /\ velero[<<c, Latest(c)>>] \in VPhase \ {"none"}
        BY <1>t, <3>1, LatestExists DEF TypeOK, VPhase
      <4>2. clock \in 0 .. MaxTime /\ Latest(c) \in 0 .. MaxTime
        BY <1>t, <4>1 DEF TypeOK, Time
      <4>3. (IF Schedule THEN Latest(c) ELSE clock) \in 0 .. MaxTime
        BY <4>2
      <4>4. /\ FromBackup(c) \in Entry /\ FromBackup(c).name = Latest(c) /\ FromBackup(c).on
            /\ FromBackup(c).last = velero[<<c, Latest(c)>>]
        BY <4>1, <4>2, <4>3 DEF FromBackup, Entry, VPhase
      <4> QED
        BY <3>1, <4>1, <4>4 DEF Ended
    <3>2. CASE st'[c] = st[c]
      BY <1>t, <3>2 DEF TypeOK, NamedExists, DoneInv
    <3> QED
      BY <2>2, <3>1, <3>2
  <2>4. st' \in [Cluster -> Entry]
    BY <2>2, <2>3
  <2>5. TypeOK'
    BY <1>t, <2>1, <2>4 DEF TypeOK, scope, bounds
  <2>6. NamedExists' /\ PassInv'
    BY <2>1, <2>3 DEF NamedExists, PassInv
  <2>7. DoneInv'
    BY <1>t, <2>1, <2>3, Constants DEF DoneInv, Ended
  <2> QED
    BY <2>5, <2>6, <2>7 DEF BackupIInv
<1>4. CASE CreateManagementBackup
  <2>1. pc = "management" /\ Created(Mgmt) /\ Recorded(Mgmt) /\ pc' = "regions"
        /\ UNCHANGED <<object, st, scope, clock, queued, at, todo, covered, bounds>>
    BY <1>4 DEF CreateManagementBackup
  <2>2. /\ BackupName \in Time /\ work' \in [Cluster -> Entry]
        /\ work'[Mgmt].on /\ work'[Mgmt].name = BackupName /\ work'[Mgmt].last = work[Mgmt].last
        /\ \A d \in Cluster \ {Mgmt} : work'[d] = work[d]
    BY <1>t, <2>1, Constants, RecordedEntry
  <2>3. Kept /\ velero'[<<Mgmt, BackupName>>] # "none"
    BY <1>t, <2>1, <2>2, Constants, CreatedBackup DEF Kept
  <2>4. TypeOK'
    BY <1>t, <2>1, <2>2, <2>3 DEF TypeOK, object, scope, bounds, Kept, VPhase
  <2>5. NamedExists' /\ PassInv' /\ DoneInv'
    BY <2>1, <2>2, <2>3, Constants, RecordedKept
  <2> QED
    BY <2>4, <2>5 DEF BackupIInv
<1>5. CASE UpdateStatus
  <2>1. pc # "idle" /\ st' = work /\ UNCHANGED <<object, velero, scope, clock, bounds>>
        /\ covered' = (IF covered = {} THEN {r \in Region : work[r].on} ELSE covered)
        /\ queued' \in BOOLEAN /\ pc' = "idle" /\ at' = 0 /\ work' = Empty /\ todo' = {}
    BY <1>5 DEF UpdateStatus, Idle
  <2>2. TypeOK'
    BY <1>t, <2>1, Constants DEF TypeOK, object, scope, bounds
  <2>3. NamedExists' /\ PassInv'
    BY <1>t, <2>1 DEF NamedExists, PassInv
  <2>4. \A c \in {Mgmt} \union covered' : work[c].on
    BY <1>t, <2>1, Constants DEF PassInv, DoneInv, TypeOK
  <2>5. DoneInv'
    BY <1>t, <2>1, <2>4, Constants DEF DoneInv, Ended
  <2> QED
    BY <2>2, <2>3, <2>5 DEF BackupIInv
<1>6. ASSUME NEW r \in Region, CreateRegionalBackup(r) PROVE BackupIInv'
  <2>1. pc = "regions" /\ Created(r) /\ Recorded(r) /\ todo' = todo \ {r}
        /\ UNCHANGED <<object, st, scope, clock, queued, pc, at, covered, bounds>>
    BY <1>6 DEF CreateRegionalBackup
  <2>2. /\ BackupName \in Time /\ work' \in [Cluster -> Entry]
        /\ work'[r].on /\ work'[r].name = BackupName /\ work'[r].last = work[r].last
        /\ \A d \in Cluster \ {r} : work'[d] = work[d]
    BY <1>t, <2>1, Constants, RecordedEntry
  <2>3. Kept /\ velero'[<<r, BackupName>>] # "none"
    BY <1>t, <2>1, <2>2, Constants, CreatedBackup DEF Kept
  <2>4. TypeOK'
    BY <1>t, <2>1, <2>2, <2>3 DEF TypeOK, object, scope, bounds, Kept, VPhase
  <2>5. NamedExists' /\ PassInv' /\ DoneInv'
    BY <2>1, <2>2, <2>3, Constants, RecordedKept
  <2> QED
    BY <2>4, <2>5 DEF BackupIInv
<1> QED
  BY <1>1, <1>2, <1>3, <1>4, <1>5, <1>6 DEF Step

LEMMA OtherInductive == BackupIInv /\ [Next]_vars => Step \/ BackupIInv'
<1> SUFFICES ASSUME BackupIInv, [Next]_vars PROVE Step \/ BackupIInv'
  OBVIOUS
<1> USE ManagementBackupAssumption
<1>t. TypeOK /\ NamedExists /\ PassInv /\ DoneInv
  BY DEF BackupIInv
<1>f. Fault => faults' \in 0 .. MaxFaults
  BY <1>t DEF Fault, TypeOK
<1>1. CASE PropagateMetaError
  <2>1. /\ UNCHANGED <<object, velero, scope, clock, covered, edits>>
        /\ queued' \in BOOLEAN /\ Idle /\ Fault
        /\ st' = [st EXCEPT ![Mgmt] = [st[Mgmt] EXCEPT !.err = TRUE]]
    BY <1>t, <1>1, Constants DEF PropagateMetaError, TypeOK
  <2>2. st[Mgmt] \in Entry /\ st \in [Cluster -> Entry] /\ Mgmt \in Cluster
    BY <1>t, Constants DEF TypeOK
  <2>3. LET e == [st[Mgmt] EXCEPT !.err = TRUE]
        IN  /\ e \in Entry /\ e.on = st[Mgmt].on
            /\ e.name = st[Mgmt].name /\ e.last = st[Mgmt].last
    BY <2>2 DEF Entry
  <2>4. /\ st' \in [Cluster -> Entry]
        /\ \A c \in Cluster : /\ st'[c].on = st[c].on /\ st'[c].name = st[c].name
                              /\ st'[c].last = st[c].last
    BY <2>1, <2>2, <2>3
  <2>5. TypeOK'
    BY <1>t, <1>f, <2>1, <2>4, Constants DEF TypeOK, object, scope, Idle
  <2>6. NamedExists' /\ PassInv'
    BY <1>t, <2>1, <2>4 DEF NamedExists, PassInv, Idle
  <2>7. \A c \in {Mgmt} \union covered : c \in Cluster
    BY <1>t, Constants DEF TypeOK
  <2>8. DoneInv'
    BY <1>t, <2>1, <2>4, <2>7, Constants DEF DoneInv, Ended, Idle
  <2> QED
    BY <2>5, <2>6, <2>8 DEF BackupIInv
<1>2. CASE PassFails
  <2>1. UNCHANGED <<object, st, velero, scope, clock, covered, edits>>
        /\ queued' = TRUE /\ Idle /\ Fault
    BY <1>2 DEF PassFails
  <2>2. TypeOK'
    BY <1>t, <1>f, <2>1, AfterIdle DEF TypeOK, object, scope
  <2> QED
    BY <2>1, <2>2, AfterIdle DEF BackupIInv
<1>3. CASE EnqueueScheduledOrIncomplete
  <2>1. UNCHANGED <<object, st, velero, scope, clock, pc, at, work, todo, covered, bounds>>
        /\ queued' = TRUE
    BY <1>3 DEF EnqueueScheduledOrIncomplete, pass
  <2>2. TypeOK'
    BY <1>t, <2>1 DEF TypeOK, object, scope, bounds
  <2> QED
    BY <2>1, <2>2, Untouched DEF BackupIInv
<1>4. CASE Tick
  <2>1. UNCHANGED <<object, st, velero, scope, queued, pc, at, work, todo, covered, bounds>>
    BY <1>4 DEF Tick, pass
  <2>2. clock' \in Time
    BY <1>t, <1>4 DEF TypeOK, Tick, Time
  <2>3. TypeOK'
    BY <1>t, <2>1, <2>2 DEF TypeOK, object, scope, bounds
  <2> QED
    BY <2>1, <2>3, Untouched DEF BackupIInv
<1>5. CASE Restore
  <2>1. /\ UNCHANGED <<kind, labelled, used, clock, edits>>
        /\ created' = clock /\ restored' = TRUE /\ st' = Empty /\ queued' = TRUE
        /\ covered' = {} /\ loaded' \subseteq Region /\ Idle /\ Fault
    BY <1>t, <1>5 DEF Restore, TypeOK
  <2>2. velero' = [x \in Cluster \X Time |->
                     IF x[1] = Mgmt /\ velero[x] # "done" THEN "none" ELSE velero[x]]
    BY <1>5 DEF Restore
  <2>3. velero' \in [Cluster \X Time -> {"none", "fresh", "running", "done"}]
    BY <1>t, <2>2 DEF TypeOK
  <2>4. TypeOK'
    BY <1>t, <1>f, <2>1, <2>3, Constants DEF TypeOK, Idle
  <2>5. NamedExists' /\ PassInv' /\ DoneInv'
    BY <2>1, Constants DEF NamedExists, PassInv, DoneInv, Idle
  <2> QED
    BY <2>4, <2>5 DEF BackupIInv
<1>6. ASSUME NEW c \in Cluster, NEW t \in Time, VeleroMoves(c, t) PROVE BackupIInv'
  <2>1. UNCHANGED <<object, st, scope, clock, queued, pc, at, work, todo, covered, bounds>>
    BY <1>6 DEF VeleroMoves, pass
  <2>2. velero' = [velero EXCEPT ![<<c, t>>] =
                     IF velero[<<c, t>>] = "fresh" THEN "running" ELSE "done"]
        /\ velero \in [Cluster \X Time -> VPhase] /\ velero[<<c, t>>] \in {"fresh", "running"}
    BY <1>t, <1>6 DEF VeleroMoves, TypeOK, VPhase
  <2>3. Kept
    BY <2>2 DEF Kept, VPhase
  <2>4. TypeOK'
    BY <1>t, <2>1, <2>3 DEF TypeOK, object, scope, bounds, Kept, VPhase
  <2>5. NamedExists' /\ PassInv' /\ DoneInv'
    BY <2>1, <2>3, BackupsKept
  <2> QED
    BY <2>4, <2>5 DEF BackupIInv
<1>7. ASSUME NEW r \in Region, RegionalBackupFails(r) PROVE BackupIInv'
  <2>1. /\ UNCHANGED <<object, st, velero, scope, clock, queued, pc, at, covered, edits>>
        /\ pc = "regions" /\ todo' = todo \ {r} /\ Fault
        /\ work' = [work EXCEPT ![r] = [work[r] EXCEPT !.on = TRUE, !.err = TRUE]]
    BY <1>t, <1>7, Constants DEF RegionalBackupFails, TypeOK
  <2>2. work[r] \in Entry /\ work \in [Cluster -> Entry] /\ r \in Cluster
    BY <1>t, Constants DEF TypeOK
  <2>3. LET e == [work[r] EXCEPT !.on = TRUE, !.err = TRUE]
        IN  e \in Entry /\ e.on /\ e.name = work[r].name /\ e.last = work[r].last
    BY <2>2 DEF Entry
  <2>4. /\ work' \in [Cluster -> Entry]
        /\ work'[r].on /\ work'[r].name = work[r].name /\ work'[r].last = work[r].last
        /\ \A d \in Cluster \ {r} : work'[d] = work[d]
    BY <2>1, <2>2, <2>3
  <2>5. TypeOK'
    BY <1>t, <1>f, <2>1, <2>4 DEF TypeOK, object, scope
  <2>6. NamedExists' /\ PassInv'
    BY <1>t, <2>1, <2>2, <2>4 DEF NamedExists, PassInv
  <2>7. DoneInv'
    BY <1>t, <2>1, <2>2, <2>4 DEF DoneInv, Ended
  <2> QED
    BY <2>5, <2>6, <2>7 DEF BackupIInv
<1>8. ASSUME NEW r \in Region, UseRegion(r) \/ RegionComesBack(r) PROVE BackupIInv'
  <2>1. /\ UNCHANGED <<object, st, velero, clock, queued, pc, at, work, todo, covered, faults>>
        /\ used' \subseteq Region /\ loaded' \subseteq Region
        /\ edits' \in 0 .. MaxEdits
    BY <1>t, <1>8 DEF UseRegion, RegionComesBack, pass, bounds, Edit, TypeOK
  <2>2. TypeOK'
    BY <1>t, <2>1 DEF TypeOK, object
  <2> QED
    BY <2>1, <2>2, Untouched DEF BackupIInv
<1>9. CASE UNCHANGED vars
  <2>1. UNCHANGED <<object, st, velero, scope, clock, queued, pc, at, work, todo, covered, bounds>>
    BY <1>9 DEF vars, pass
  <2>2. TypeOK'
    BY <1>t, <2>1 DEF TypeOK, object, scope, bounds
  <2> QED
    BY <2>1, <2>2, Untouched DEF BackupIInv
<1> QED
  BY <1>1, <1>2, <1>3, <1>4, <1>5, <1>6, <1>7, <1>8, <1>9 DEF Next

LEMMA Implied == BackupIInv => BackupInv
<1> SUFFICES ASSUME BackupIInv, IsCompleted(st)
             PROVE  \A c \in {Mgmt} \union covered : Ended(c)
  BY DEF BackupIInv, BackupInv, CompletedIsTrue, Ended
<1> QED
  BY Constants DEF BackupIInv, TypeOK, DoneInv, IsCompleted

(* ReconcileBackup keeps what the status says of the velero Backups true,  *)
(* whichever of its calls fails and whatever is created, restored or       *)
(* forgotten between two of them: a Backup it names exists, and a single   *)
(* backup that IsCompleted has one that ended on the management cluster    *)
(* and in every Region it was made for, so that the upgrade may go on.     *)
THEOREM BackupsTrue == Spec => []BackupInv
<1>1. Init => BackupIInv
  BY BackupInit
<1>2. BackupIInv /\ [Next]_vars => BackupIInv'
  BY StepInductive, OtherInductive
<1>3. BackupIInv => BackupInv
  BY Implied
<1> QED
  BY <1>1, <1>2, <1>3, PTL DEF Spec

-----------------------------------------------------------------------------
(* One Backup for a slot                                                   *)

Slot(t)   == t \div Period
InSlot(k) == {t \in Time : Slot(t) = k /\ velero[<<Mgmt, t>>] # "none"}

(* OncePerSlot.                                                            *)
CountInv == \A k \in Nat : Cardinality(InSlot(k)) <= 1 + faults

(* A slot after the last one the status knows has only Backups that a      *)
(* fault made the status lose, and the one of the pass under way.          *)
OpenInv ==
    \A k \in Nat : /\ Slot(LastTime) < k
                   /\ ~(pc = "regions" /\ k = Slot(at))
                   => Cardinality(InSlot(k)) <= faults

(* A pass that creates Backups is in a slot the status does not know yet,  *)
(* and will record its own time.                                           *)
UnderWayInv ==
    pc # "idle" => /\ Slot(LastTime) < Slot(at)
                   /\ pc = "regions" => work[Mgmt].time = at

SlotInv == Schedule => CountInv /\ OpenInv /\ UnderWayInv

LEMMA SlotOrder ==
    ASSUME NEW t \in Nat, NEW u \in Nat
    PROVE  /\ Slot(t) \in Nat
           /\ t <= u => Slot(t) <= Slot(u)
           /\ u >= NextSlot(t) => Slot(t) < Slot(u)
<1>1. t \div Period \in Nat
  BY ManagementBackupAssumption
<1>2. t <= u => t \div Period <= u \div Period
  BY ManagementBackupAssumption
<1>3. u >= (t \div Period + 1) * Period => t \div Period < u \div Period
  BY ManagementBackupAssumption
<1> QED
  BY <1>1, <1>2, <1>3 DEF Slot, NextSlot

(* The Backups of a slot are finitely many.                                *)
LEMMA SlotFinite ==
    ASSUME NEW S \in SUBSET Time
    PROVE  IsFiniteSet(S) /\ Cardinality(S) \in Nat
<1>1. IsFiniteSet(1 .. MaxTime)
  BY FS_Interval, ManagementBackupAssumption
<1>2. IsFiniteSet(S)
  BY <1>1, FS_Subset DEF Time
<1> QED
  BY <1>2, FS_CardinalityType

LEMMA SlotCount ==
    ASSUME NEW S \in SUBSET Time, NEW T \in SUBSET Time
    PROVE  /\ S \subseteq T => Cardinality(S) <= Cardinality(T)
           /\ \A t \in Time : S \subseteq T \union {t} => Cardinality(S) <= Cardinality(T) + 1
<1>1. IsFiniteSet(T) /\ Cardinality(T) \in Nat /\ Cardinality(S) \in Nat
  BY SlotFinite
<1>2. S \subseteq T => Cardinality(S) <= Cardinality(T)
  BY <1>1, FS_Subset
<1>3. ASSUME NEW t \in Time, S \subseteq T \union {t}
      PROVE  Cardinality(S) <= Cardinality(T) + 1
  <2>1. /\ IsFiniteSet(T \union {t})
        /\ Cardinality(T \union {t}) \in {Cardinality(T), Cardinality(T) + 1}
    BY <1>1, FS_AddElement
  <2>2. Cardinality(S) <= Cardinality(T \union {t})
    BY <1>3, <2>1, FS_Subset
  <2> QED
    BY <1>1, <2>1, <2>2
<1> QED
  BY <1>2, <1>3

(* Nothing was created on the management cluster, and the status does not  *)
(* know of an earlier time than before: enough for a step that leaves the  *)
(* pass as it is, and for one that ends it if it is counted as a fault.    *)
LEMMA NothingCreated ==
    ASSUME BackupIInv, SlotInv, TypeOK', kind' = kind,
           \A t \in Time : velero'[<<Mgmt, t>>] # "none" => velero[<<Mgmt, t>>] # "none",
           \/ /\ UNCHANGED <<created, pc, at>> /\ faults' >= faults
              /\ st'[Mgmt].time = st[Mgmt].time /\ work'[Mgmt].time = work[Mgmt].time
           \/ pc' = "idle" /\ faults' = faults + 1
    PROVE  SlotInv'
<1> SUFFICES ASSUME Schedule PROVE (CountInv /\ OpenInv /\ UnderWayInv)'
  BY DEF SlotInv, Schedule
<1>1. CountInv /\ OpenInv /\ UnderWayInv
  BY DEF SlotInv
<1>2. faults \in Nat /\ faults' \in Nat
  BY ManagementBackupAssumption DEF BackupIInv, TypeOK
<1>3. ASSUME NEW k \in Nat
      PROVE  /\ Cardinality(InSlot(k)) \in Nat /\ Cardinality(InSlot(k)') \in Nat
             /\ Cardinality(InSlot(k)') <= Cardinality(InSlot(k))
  <2>1. InSlot(k) \in SUBSET Time /\ InSlot(k)' \in SUBSET Time /\ InSlot(k)' \subseteq InSlot(k)
    BY DEF InSlot
  <2> QED
    BY <2>1, SlotFinite, SlotCount
<1>4. CASE /\ UNCHANGED <<created, pc, at>> /\ faults' >= faults
           /\ st'[Mgmt].time = st[Mgmt].time /\ work'[Mgmt].time = work[Mgmt].time
  <2>1. LastTime' = LastTime
    BY <1>4 DEF LastTime
  <2>2. CountInv'
    BY <1>1, <1>2, <1>3, <1>4 DEF CountInv
  <2>3. OpenInv'
    BY <1>1, <1>2, <1>3, <1>4, <2>1 DEF OpenInv
  <2>4. UnderWayInv'
    BY <1>1, <1>4, <2>1 DEF UnderWayInv
  <2> QED
    BY <2>2, <2>3, <2>4
<1>5. CASE pc' = "idle" /\ faults' = faults + 1
  BY <1>1, <1>2, <1>3, <1>5 DEF CountInv, OpenInv, UnderWayInv
<1> QED
  BY <1>4, <1>5

LEMMA SlotInit == Init => SlotInv
<1> SUFFICES ASSUME Init, Schedule PROVE CountInv /\ OpenInv /\ UnderWayInv
  BY DEF SlotInv
<1>1. ASSUME NEW k \in Nat PROVE Cardinality(InSlot(k)) = 0
  <2>1. InSlot(k) = {}
    BY Constants DEF InSlot, Init
  <2> QED
    BY <2>1, FS_EmptySet
<1> QED
  BY <1>1 DEF Init, CountInv, OpenInv, UnderWayInv

(* A restored object knows the latest Backup there is: none is after it.   *)
LEMMA RestoredSlot ==
    ASSUME BackupIInv, BackupIInv', SlotInv, UpdateAfterRestoration
    PROVE  SlotInv'
<1>1. UNCHANGED <<kind, created, velero, pc, at, work, faults>> /\ pc = "idle"
  BY DEF UpdateAfterRestoration, pass, bounds
<1>2. st'[Mgmt] = st[Mgmt] \/ (Latest(Mgmt) # 0 /\ st'[Mgmt] = FromBackup(Mgmt))
  BY Constants DEF UpdateAfterRestoration
<1>3. CASE st'[Mgmt] = st[Mgmt]
  <2>1. faults' >= faults
    BY <1>1, ManagementBackupAssumption DEF BackupIInv, TypeOK
  <2> QED
    BY <1>1, <1>3, <2>1, NothingCreated DEF BackupIInv
<1>4. ASSUME Schedule, Latest(Mgmt) # 0, st'[Mgmt] = FromBackup(Mgmt)
      PROVE  (CountInv /\ OpenInv /\ UnderWayInv)'
  <2>1. CountInv /\ faults \in Nat
    BY <1>4, ManagementBackupAssumption DEF SlotInv, BackupIInv, TypeOK
  <2>2. /\ Latest(Mgmt) \in Time
        /\ \A u \in Time : velero[<<Mgmt, u>>] # "none" => u <= Latest(Mgmt)
    BY <1>4, Constants, LatestExists DEF BackupIInv
  <2>3. LastTime' = Latest(Mgmt)
    BY <1>4 DEF FromBackup, LastTime
  <2>4. ASSUME NEW k \in Nat, Slot(Latest(Mgmt)) < k PROVE Cardinality(InSlot(k)) = 0
    <3>1. ASSUME NEW t \in InSlot(k) PROVE FALSE
      <4>1. t \in Nat /\ Latest(Mgmt) \in Nat /\ t <= Latest(Mgmt) /\ Slot(t) = k
        BY <2>2, ManagementBackupAssumption DEF InSlot, Time
      <4>2. Slot(t) <= Slot(Latest(Mgmt)) /\ Slot(Latest(Mgmt)) \in Nat
        BY <4>1, SlotOrder
      <4> QED
        BY <2>4, <4>1, <4>2
    <3>2. InSlot(k) = {}
      BY <3>1
    <3> QED
      BY <3>2, FS_EmptySet
  <2>5. \A k \in Nat : InSlot(k)' = InSlot(k)
    BY <1>1 DEF InSlot
  <2>6. CountInv'
    BY <1>1, <2>1, <2>5 DEF CountInv
  <2>7. OpenInv'
    BY <1>1, <2>1, <2>3, <2>4, <2>5 DEF OpenInv
  <2>8. UnderWayInv'
    BY <1>1 DEF UnderWayInv
  <2> QED
    BY <2>6, <2>7, <2>8
<1> QED
  BY <1>1, <1>2, <1>3, <1>4 DEF SlotInv, Schedule

(* The pass begins in a slot that is due.                                  *)
LEMMA DueSlot ==
    ASSUME BackupIInv, BackupIInv', SlotInv, Reconcile, OkayToCreate, CreateAllBackups
    PROVE  SlotInv'
<1>1. /\ UNCHANGED <<kind, created, st, velero, faults>>
      /\ at' = clock /\ pc' \in {"management", "regions"} /\ pc = "idle"
      /\ Schedule => pc' = "management" /\ IsDue
  BY DEF Reconcile, CreateAllBackups, OkayToCreate, object, bounds
<1> SUFFICES ASSUME Schedule PROVE (CountInv /\ OpenInv /\ UnderWayInv)'
  BY <1>1 DEF SlotInv, Schedule
<1>2. CountInv /\ OpenInv
  BY DEF SlotInv
<1>3. LastTime' = LastTime /\ \A k \in Nat : InSlot(k)' = InSlot(k)
  BY <1>1 DEF LastTime, InSlot
<1>4. LastTime \in Nat /\ clock \in Nat
  BY Constants, ManagementBackupAssumption DEF BackupIInv, TypeOK, LastTime, Time, Entry
<1>5. Slot(LastTime) < Slot(clock)
  BY <1>1, <1>4, SlotOrder DEF IsDue
<1>6. CountInv'
  BY <1>1, <1>2, <1>3 DEF CountInv
<1>7. OpenInv'
  BY <1>1, <1>2, <1>3 DEF OpenInv
<1>8. UnderWayInv'
  BY <1>1, <1>3, <1>5 DEF UnderWayInv
<1> QED
  BY <1>6, <1>7, <1>8

(* The Backup is one more in the slot of the pass.                         *)
LEMMA CreatedInSlot ==
    ASSUME BackupIInv, BackupIInv', SlotInv, CreateManagementBackup
    PROVE  SlotInv'
<1>1. /\ pc = "management" /\ pc' = "regions" /\ Created(Mgmt) /\ Recorded(Mgmt)
      /\ UNCHANGED <<kind, created, st, at, faults>>
  BY DEF CreateManagementBackup, object, bounds
<1> SUFFICES ASSUME Schedule PROVE (CountInv /\ OpenInv /\ UnderWayInv)'
  BY <1>1 DEF SlotInv, Schedule
<1>2. CountInv /\ OpenInv /\ Slot(LastTime) < Slot(at)
  BY <1>1 DEF SlotInv, UnderWayInv
<1>3. at \in Time /\ at \in Nat /\ BackupName = at /\ faults \in Nat /\ Mgmt \in Cluster
  BY <1>1, Constants, ManagementBackupAssumption
     DEF BackupIInv, TypeOK, PassInv, BackupName, Time
<1>4. Slot(at) \in Nat
  BY <1>3, SlotOrder
<1>5. \A t \in Time \ {at} : velero'[<<Mgmt, t>>] = velero[<<Mgmt, t>>]
  BY <1>1, <1>3 DEF Created, BackupIInv, TypeOK
<1>6. ASSUME NEW k \in Nat
      PROVE  /\ Cardinality(InSlot(k)) \in Nat /\ Cardinality(InSlot(k)') \in Nat
             /\ Cardinality(InSlot(k)') <= Cardinality(InSlot(k)) + 1
             /\ k # Slot(at) => Cardinality(InSlot(k)') <= Cardinality(InSlot(k))
  <2>1. /\ InSlot(k) \in SUBSET Time /\ InSlot(k)' \in SUBSET Time
        /\ InSlot(k)' \subseteq InSlot(k) \union {at}
        /\ k # Slot(at) => InSlot(k)' \subseteq InSlot(k)
    BY <1>5 DEF InSlot
  <2> QED
    BY <1>3, <2>1, SlotFinite, SlotCount
<1>7. LastTime' = LastTime
  BY <1>1 DEF LastTime
<1>8. CountInv'
  BY <1>1, <1>2, <1>3, <1>4, <1>6 DEF CountInv, OpenInv
<1>9. OpenInv'
  BY <1>1, <1>2, <1>3, <1>6, <1>7 DEF OpenInv
<1>10. work'[Mgmt].time = at
  BY <1>1, <1>3 DEF Recorded, BackupIInv, TypeOK
<1>11. UnderWayInv'
  BY <1>1, <1>2, <1>7, <1>10 DEF UnderWayInv
<1> QED
  BY <1>8, <1>9, <1>11

(* The slot of the pass becomes the last one the status knows.             *)
LEMMA RecordedSlot ==
    ASSUME BackupIInv, BackupIInv', SlotInv, UpdateStatus
    PROVE  SlotInv'
<1>1. /\ pc = "regions" /\ pc' = "idle" /\ st' = work
      /\ UNCHANGED <<kind, created, velero, faults>>
  BY DEF UpdateStatus, Idle, object, bounds
<1> SUFFICES ASSUME Schedule PROVE (CountInv /\ OpenInv /\ UnderWayInv)'
  BY <1>1 DEF SlotInv, Schedule
<1>2. CountInv /\ OpenInv /\ Slot(LastTime) < Slot(at) /\ work[Mgmt].time = at
  BY <1>1 DEF SlotInv, UnderWayInv
<1>3. at \in Time /\ at \in Nat /\ at # 0 /\ LastTime \in Nat
  BY <1>1, Constants, ManagementBackupAssumption
     DEF BackupIInv, TypeOK, PassInv, LastTime, Time, Entry
<1>4. LastTime' = at /\ Slot(at) \in Nat /\ Slot(LastTime) \in Nat
  BY <1>1, <1>2, <1>3, SlotOrder DEF LastTime
<1>5. \A k \in Nat : InSlot(k)' = InSlot(k)
  BY <1>1 DEF InSlot
<1>6. CountInv'
  BY <1>1, <1>2, <1>5 DEF CountInv
<1>7. \A k \in Nat : Slot(at) < k => Slot(LastTime) < k /\ k # Slot(at)
  BY <1>2, <1>4
<1>8. OpenInv'
  BY <1>1, <1>2, <1>4, <1>5, <1>7 DEF OpenInv
<1>9. UnderWayInv'
  BY <1>1 DEF UnderWayInv
<1> QED
  BY <1>6, <1>8, <1>9

LEMMA SlotInductive == BackupIInv /\ BackupIInv' /\ SlotInv /\ [Next]_vars => SlotInv'
<1> SUFFICES ASSUME BackupIInv, BackupIInv', SlotInv, [Next]_vars PROVE SlotInv'
  OBVIOUS
<1>t. /\ TypeOK /\ TypeOK' /\ Mgmt \in Cluster /\ Mgmt \notin Region
      /\ faults \in Nat /\ faults >= faults /\ faults + 1 >= faults
  BY Constants, ManagementBackupAssumption DEF BackupIInv, TypeOK
<1>1. CASE Reconcile
  <2>1. CASE OkayToCreate /\ CreateAllBackups
    BY <1>1, <2>1, DueSlot
  <2>2. CASE UNCHANGED pass /\ (UpdateAllBackupsStatus \/ UNCHANGED st)
    <3>1. UNCHANGED <<kind, created, velero, pc, at, work, faults>>
      BY <1>1, <2>2 DEF Reconcile, object, bounds, pass
    <3>2. st'[Mgmt].time = st[Mgmt].time
      <4>1. st[Mgmt] \in Entry
        BY <1>t DEF TypeOK
      <4>2. \/ st'[Mgmt] = st[Mgmt]
            \/ st'[Mgmt] = [st[Mgmt] EXCEPT !.last = velero[<<Mgmt, st[Mgmt].name>>]]
        BY <1>t, <2>2 DEF UpdateAllBackupsStatus
      <4> QED
        BY <4>1, <4>2 DEF Entry
    <3> QED
      BY <1>t, <3>1, <3>2, NothingCreated
  <2> QED
    BY <1>1, <2>1, <2>2 DEF Reconcile
<1>2. CASE UpdateAfterRestoration
  BY <1>2, RestoredSlot
<1>3. CASE CreateManagementBackup
  BY <1>3, CreatedInSlot
<1>4. CASE UpdateStatus
  BY <1>4, RecordedSlot
<1>5. ASSUME NEW r \in Region, CreateRegionalBackup(r) PROVE SlotInv'
  <2>1. /\ UNCHANGED <<kind, created, st, pc, at, faults>>
        /\ pc = "regions" /\ Created(r) /\ Recorded(r) /\ r \in Cluster /\ r # Mgmt
    BY <1>t, <1>5, Constants DEF CreateRegionalBackup, object, bounds
  <2>2. \A t \in Time : velero'[<<Mgmt, t>>] = velero[<<Mgmt, t>>]
    BY <1>t, <2>1 DEF Created, TypeOK
  <2>3. work'[Mgmt] = work[Mgmt]
    BY <1>t, <2>1 DEF Recorded, TypeOK
  <2> QED
    BY <1>t, <2>1, <2>2, <2>3, NothingCreated
<1>6. ASSUME NEW r \in Region, RegionalBackupFails(r) PROVE SlotInv'
  <2>1. /\ UNCHANGED <<kind, created, st, velero, pc, at>> /\ faults' = faults + 1
        /\ r \in Cluster /\ r # Mgmt
    BY <1>t, <1>6, Constants DEF RegionalBackupFails, object, Fault
  <2>2. work'[Mgmt] = work[Mgmt]
    BY <1>t, <1>6, <2>1 DEF RegionalBackupFails, TypeOK
  <2> QED
    BY <1>t, <2>1, <2>2, NothingCreated
<1>7. CASE PropagateMetaError \/ PassFails
  <2>1. kind' = kind /\ velero' = velero /\ pc' = "idle" /\ faults' = faults + 1
    BY <1>7 DEF PropagateMetaError, PassFails, object, Idle, Fault
  <2> QED
    BY <1>t, <2>1, NothingCreated
<1>8. CASE Restore
  <2>1. kind' = kind /\ pc' = "idle" /\ faults' = faults + 1
    BY <1>8 DEF Restore, Idle, Fault
  <2>2. \A t \in Time : velero'[<<Mgmt, t>>] # "none" => velero[<<Mgmt, t>>] # "none"
    BY <1>t, <1>8 DEF Restore
  <2> QED
    BY <1>t, <2>1, <2>2, NothingCreated
<1>9. ASSUME NEW c \in Cluster, NEW t \in Time, VeleroMoves(c, t) PROVE SlotInv'
  <2>1. UNCHANGED <<kind, created, st, pc, at, work, faults>>
    BY <1>9 DEF VeleroMoves, object, pass, bounds
  <2>2. \A u \in Time : velero'[<<Mgmt, u>>] # "none" => velero[<<Mgmt, u>>] # "none"
    BY <1>t, <1>9 DEF VeleroMoves, TypeOK
  <2> QED
    BY <1>t, <2>1, <2>2, NothingCreated
<1>10. CASE \/ AddLabel \/ EnqueueScheduledOrIncomplete \/ Tick \/ UNCHANGED vars
            \/ \E r \in Region : UseRegion(r) \/ RegionComesBack(r)
  <2>1. UNCHANGED <<kind, created, st, velero, pc, at, work, faults>>
    BY <1>10 DEF AddLabel, EnqueueScheduledOrIncomplete, Tick, vars, UseRegion,
                 RegionComesBack, object, pass, bounds
  <2> QED
    BY <1>t, <2>1, NothingCreated
<1> QED
  BY <1>1, <1>2, <1>3, <1>4, <1>5, <1>6, <1>7, <1>8, <1>9, <1>10 DEF Next, Step

(* Whatever the clock, velero and the failures do between two calls, a     *)
(* slot of the schedule has one Backup on the management cluster, and at   *)
(* most one more for each failed call, restart or restoration: those make  *)
(* getNextAttemptTime forget a Backup that was created.                    *)
THEOREM SlotServedOnce == Spec => []OncePerSlot
<1>1. Init => BackupIInv /\ SlotInv
  BY BackupInit, SlotInit
<1>2. BackupIInv /\ [Next]_vars => BackupIInv'
  BY StepInductive, OtherInductive
<1>3. BackupIInv /\ BackupIInv' /\ SlotInv /\ [Next]_vars => SlotInv'
  BY SlotInductive
<1>4. SlotInv => OncePerSlot
  BY ManagementBackupAssumption DEF SlotInv, CountInv, OncePerSlot, InSlot, Slot
<1> QED
  BY <1>1, <1>2, <1>3, <1>4, PTL DEF Spec
=============================================================================
