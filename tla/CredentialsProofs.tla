------------------------- MODULE CredentialsProofs -------------------------
(***************************************************************************)
(* What a Credential uses stays in the Region, and a deleted Credential    *)
(* leaves nothing behind, for any Credentials, identities, Secrets,        *)
(* references between them and bounds.                                     *)
(***************************************************************************)
EXTENDS Credentials, TLAPS

CredRec == [phase : {"live", "deleting", "gone"}, ref : Identity, finalizer : BOOLEAN, ready : BOOLEAN]
CopyRec == [ver : 0..MaxVer, by : SUBSET Cred, managed : BOOLEAN]

\* The copy o carries the label of the Credential c.
Has(o, c) == Exists(o) /\ copy[o].managed /\ c \in copy[o].by

\* The copy o is there, and if it is kcm's it carries the label of c.
Held(o, c) == Exists(o) /\ (copy[o].managed => c \in copy[o].by)

\* The parts of the inductive invariant about the pass under way, what Credentials use, and labels.
PassInv ==
    /\ w.op = "copy" =>
          /\ cred[w.c].finalizer /\ cred[w.c].phase # "gone"
          /\ w.fresh => cred[w.c].phase = "live"
          /\ \A o \in w.todo : w.ver[o] # 0
          /\ \A o \in Needs(w.ref) \ w.todo : Exists(o) => Held(o, w.c)
    /\ w.op = "release" =>
          /\ cred[w.c].phase = "deleting"
          /\ \A o \in w.ids \cup w.refs : Exists(o) => copy[o].managed
          /\ w.c \notin torn => \A s \in Secret : Has(s, w.c) => s \in w.refs
          /\ ~w.failed => \A i \in Identity : Has(i, w.c) => i \in w.ids
UseInv ==
    \A c \in Cred : /\ cred[c].phase # "live" => using[c] = {}
                    /\ \A o \in using[c] : Held(o, c)
LabelInv ==
    \A c \in Cred : /\ ~cred[c].finalizer => \A o \in Object : ~Has(o, c)
                    /\ c \notin torn /\ Stranded(c) => w.op = "copy" /\ w.c = c
SafetyInv == PassInv /\ UseInv /\ LabelInv /\ NothingLeftBehind

-----------------------------------------------------------------------------
(* Types                                                                   *)

LEMMA AbsentType == Absent \in CopyRec
BY CredentialsAssumption DEF Absent, CopyRec

LEMMA PassKinds ==
    ASSUME TypeOK
    PROVE  /\ w.op = "copy" => w \in CopyPass
           /\ w.op = "release" => w \in ReleasePass
           /\ w.op = "idle" => w = Idle
           /\ w.op \in {"idle", "copy", "release"}
BY DEF TypeOK, CopyPass, ReleasePass, Idle

LEMMA NeedsType == ASSUME NEW i \in Identity PROVE Needs(i) \subseteq Object
BY CredentialsAssumption DEF Needs, Object

\* What a write and a release make of an object.
LEMMA EnsuredType ==
    ASSUME TypeOK, NEW o \in Object, NEW v \in 0..MaxVer, NEW c \in Cred
    PROVE  Ensured(o, v, c) \in CopyRec
<1>1. copy[o] \in CopyRec
  BY DEF TypeOK, CopyRec
<1>2. CASE ~Exists(o)
  BY <1>2 DEF Ensured, CopyRec
<1>3. CASE Exists(o)
  BY <1>1, <1>3 DEF Ensured, CopyRec
<1> QED BY <1>2, <1>3

LEMMA ReleasedType ==
    ASSUME TypeOK, NEW o \in Object, NEW c \in Cred PROVE Released(o, c) \in CopyRec
<1>1. copy[o] \in CopyRec
  BY DEF TypeOK, CopyRec
<1> QED BY <1>1, AbsentType DEF Released, CopyRec

LEMMA PastType ==
    ASSUME w \in ReleasePass, NEW o, o \in Identity \cup Secret, NEW f \in BOOLEAN
    PROVE  Past(o, f) \in ReleasePass
<1>1. Labelled(Secret, w.c) \subseteq Secret
  BY DEF Labelled
<1>2. CASE o \in Secret
  BY <1>2 DEF Past, ReleasePass
<1>3. CASE o \notin Secret
  BY <1>1, <1>3 DEF Past, ReleasePass
<1> QED BY <1>2, <1>3

LEMMA TouchedType ==
    ASSUME TypeOK, NEW c \in Cred PROVE Touched(c) \in {Idle} \cup CopyPass \cup ReleasePass
<1>1. CASE w \in CopyPass
  BY <1>1 DEF Touched, CopyPass
<1>2. CASE w \in ReleasePass
  BY <1>2 DEF Touched, ReleasePass
<1>3. CASE w = Idle
  BY <1>3 DEF Touched, Idle
<1> QED BY <1>1, <1>2, <1>3 DEF TypeOK

\* The deferred status update writes the Ready condition and nothing else.
LEMMA StatusType ==
    ASSUME TypeOK, NEW c \in Cred, NEW fresh \in BOOLEAN, NEW ready \in BOOLEAN, NEW again \in BOOLEAN,
           NEW rest \in SUBSET Cred, StatusWritten(c, fresh, ready, again, rest)
    PROVE  /\ w' = Idle
           /\ cred' \in [Cred -> CredRec] /\ queue' \subseteq Cred
           /\ \A d \in Cred : cred'[d].phase = cred[d].phase /\ cred'[d].finalizer = cred[d].finalizer
<1>1. cred \in [Cred -> CredRec]
  BY DEF TypeOK, CredRec
<1> QED BY <1>1 DEF StatusWritten, CredRec

LEMMA FinalizerRemovedType ==
    ASSUME cred \in [Cred -> CredRec], NEW c \in Cred
    PROVE  /\ FinalizerRemoved(c) \in [Cred -> CredRec]
           /\ \A d \in Cred : /\ FinalizerRemoved(c)[d].phase = IF d = c THEN "gone" ELSE cred[d].phase
                              /\ FinalizerRemoved(c)[d].finalizer = cred[d].finalizer
<1> DEFINE r == [cred[c] EXCEPT !.phase = "gone", !.ready = FALSE]
<1>1. cred[c] \in CredRec
  OBVIOUS
<1>2. r \in CredRec /\ r.phase = "gone" /\ r.finalizer = cred[c].finalizer
  BY <1>1 DEF CredRec
<1>3. FinalizerRemoved(c) = [cred EXCEPT ![c] = r]
  BY <1>1 DEF FinalizerRemoved, CredRec
<1> HIDE DEF r
<1> QED BY <1>2, <1>3

\* Type correctness of every step of the controller, the users and the Region.
LEMMA TypeInductive == TypeOK /\ [Next]_vars => TypeOK'
<1> SUFFICES ASSUME TypeOK, [Next]_vars PROVE TypeOK'
  OBVIOUS
<1> USE CredentialsAssumption
<1>t. /\ cred \in [Cred -> CredRec] /\ copy \in [Object -> CopyRec] /\ src \in [Object -> 0..MaxVer]
      /\ queue \subseteq Cred /\ torn \subseteq Cred /\ unreleased \subseteq Cred
      /\ using \in [Cred -> SUBSET Object] /\ region \in RegionState
      /\ edits \in 0..MaxEdits /\ faults \in 0..MaxFaults
      /\ w \in {Idle} \cup CopyPass \cup ReleasePass
  BY DEF TypeOK, CredRec, CopyRec
<1>e. ASSUME Edit PROVE edits' \in 0..MaxEdits
  BY <1>e, <1>t DEF Edit
<1>f. ASSUME faults < MaxFaults, faults' = faults + 1 PROVE faults' \in 0..MaxFaults
  BY <1>f, <1>t
<1>s. ASSUME NEW c \in Cred PROVE StrandedOf(c) \subseteq Cred
  BY DEF StrandedOf
<1>w. ASSUME cred' \in [Cred -> CredRec], copy' \in [Object -> CopyRec], src' \in [Object -> 0..MaxVer],
             queue' \subseteq Cred, torn' \subseteq Cred, unreleased' \subseteq Cred,
             using' \in [Cred -> SUBSET Object], region' \in RegionState,
             edits' \in 0..MaxEdits, faults' \in 0..MaxFaults,
             w' \in {Idle} \cup CopyPass \cup ReleasePass
      PROVE  TypeOK'
  BY <1>w DEF TypeOK, CredRec, CopyRec
<1>1. ASSUME NEW c \in Cred, AddFinalizer(c) PROVE TypeOK'
  <2>1. cred' \in [Cred -> CredRec]
    <3> DEFINE r == [cred[c] EXCEPT !.finalizer = TRUE]
    <3>1. cred[c] \in CredRec /\ cred \in [Cred -> CredRec]
      BY <1>t
    <3>2. r \in CredRec
      BY <3>1 DEF CredRec
    <3>3. cred' = [cred EXCEPT ![c] = r]
      BY <1>1, <3>1 DEF AddFinalizer, CredRec
    <3> HIDE DEF r
    <3> QED BY <3>1, <3>2, <3>3
  <2> QED BY <1>1, <1>t, <1>w, <2>1 DEF AddFinalizer, hist
<1>2. ASSUME NEW c \in Cred, NEW ready \in BOOLEAN, NEW again \in BOOLEAN, Ended(c, ready, again)
      PROVE TypeOK'
  <2>1. StatusWritten(c, TRUE, ready, again, queue \ {c}) /\ queue \ {c} \in SUBSET Cred
    BY <1>2, <1>t DEF Ended
  <2>2. w' = Idle /\ cred' \in [Cred -> CredRec] /\ queue' \subseteq Cred
    BY <1>t, <2>1 DEF StatusWritten, CredRec
  <2> QED BY <1>2, <1>t, <1>w, <2>2 DEF Ended, hist
<1>3. ASSUME NEW c \in Cred, NoRegion(c) PROVE TypeOK'
  <2>1. cred[c].ready \in BOOLEAN
    BY <1>t DEF CredRec
  <2> QED BY <1>2, <1>3, <2>1 DEF NoRegion
<1>4. ASSUME NEW c \in Cred, Collect(c) PROVE TypeOK'
  <2>1. cred[c].ready \in BOOLEAN /\ cred[c].ref \in Identity
    BY <1>t DEF CredRec
  <2>2. CASE Ended(c, cred[c].ready, TRUE)
    BY <1>2, <2>1, <2>2
  <2>3. CASE /\ w' = [op |-> "copy", c |-> c, ref |-> cred[c].ref, todo |-> Needs(cred[c].ref),
                      ver |-> [o \in Object |-> IF o \in Needs(cred[c].ref) THEN src[o] ELSE 0],
                      fresh |-> TRUE]
             /\ queue' = queue \ {c}
             /\ UNCHANGED <<cred, src, copy, region, edits, faults, hist>>
    <3>1. [o \in Object |-> IF o \in Needs(cred[c].ref) THEN src[o] ELSE 0] \in [Object -> 0..MaxVer]
      BY <1>t
    <3>2. Needs(cred[c].ref) \in SUBSET Object
      BY <2>1, NeedsType
    <3>3. w' \in CopyPass
      BY <2>1, <2>3, <3>1, <3>2 DEF CopyPass
    <3> QED BY <1>t, <1>w, <2>3, <3>3 DEF hist
  <2> QED BY <1>4, <2>2, <2>3 DEF Collect
<1>5. ASSUME CopyOne PROVE TypeOK'
  <2>1. w \in CopyPass
    BY <1>5, PassKinds DEF CopyOne
  <2>2. PICK o \in FirstOf(w.todo) : /\ copy' = [copy EXCEPT ![o] = Ensured(o, w.ver[o], w.c)]
                                     /\ w' = [w EXCEPT !.todo = @ \ {o}]
    BY <1>5 DEF CopyOne
  <2>3. o \in Object /\ w.ver[o] \in 0..MaxVer /\ w.c \in Cred
    BY <2>1, <2>2 DEF FirstOf, CopyPass
  <2>4. Ensured(o, w.ver[o], w.c) \in CopyRec
    BY <2>3, EnsuredType
  <2>5. copy' \in [Object -> CopyRec]
    BY <1>t, <2>2, <2>4
  <2>6. w' \in CopyPass
    BY <2>1, <2>2 DEF CopyPass
  <2> QED BY <1>5, <1>t, <1>w, <2>5, <2>6 DEF CopyOne, hist
<1>6. ASSUME CopyFails PROVE TypeOK'
  <2>1. w.c \in Cred /\ w.fresh \in BOOLEAN /\ queue \in SUBSET Cred
    BY <1>6, <1>t, PassKinds DEF CopyFails, CopyPass
  <2>2. cred[w.c].ready \in BOOLEAN
    BY <1>t, <2>1 DEF CredRec
  <2>3. StatusWritten(w.c, w.fresh, cred[w.c].ready, TRUE, queue)
    BY <1>6 DEF CopyFails
  <2>4. w' = Idle /\ cred' \in [Cred -> CredRec] /\ queue' \subseteq Cred
    BY <2>1, <2>2, <2>3, StatusType
  <2>5. faults' \in 0..MaxFaults /\ torn' \subseteq Cred
    BY <1>6, <1>f, <1>t, <1>s, <2>1 DEF CopyFails
  <2> QED BY <1>6, <1>t, <1>w, <2>4, <2>5 DEF CopyFails
<1>7. ASSUME CheckIdentity PROVE TypeOK'
  <2>1. w.c \in Cred /\ w.fresh \in BOOLEAN /\ queue \in SUBSET Cred /\ w.ref \in Identity
    BY <1>7, <1>t, PassKinds DEF CheckIdentity, CopyPass
  <2>2. Exists(w.ref) \in BOOLEAN /\ (~Exists(w.ref)) \in BOOLEAN
    BY DEF Exists
  <2>3. StatusWritten(w.c, w.fresh, Exists(w.ref), ~Exists(w.ref), queue)
    BY <1>7 DEF CheckIdentity
  <2>4. w' = Idle /\ cred' \in [Cred -> CredRec] /\ queue' \subseteq Cred
    BY <2>1, <2>2, <2>3, StatusType
  <2>5. using' \in [Cred -> SUBSET Object]
    <3>1. {o \in Needs(w.ref) : Exists(o)} \in SUBSET Object
      BY <2>1, NeedsType
    <3>2. using' = using \/ using' = [using EXCEPT ![w.c] = {o \in Needs(w.ref) : Exists(o)}]
      BY <1>7 DEF CheckIdentity
    <3> QED BY <1>t, <2>1, <3>1, <3>2
  <2>6. torn' \subseteq Cred
    BY <1>7, <1>t, <1>s, <2>1 DEF CheckIdentity
  <2> QED BY <1>7, <1>t, <1>w, <2>4, <2>5, <2>6 DEF CheckIdentity
<1>8. ASSUME NEW c \in Cred, LetGo(c) PROVE TypeOK'
  <2>1. cred' \in [Cred -> CredRec]
    <3>1. cred' = FinalizerRemoved(c)
      BY <1>8 DEF LetGo
    <3> QED BY <1>t, <3>1, FinalizerRemovedType
  <2>2. unreleased' \subseteq Cred
    BY <1>8, <1>t DEF LetGo
  <2> QED BY <1>8, <1>t, <1>w, <2>1, <2>2 DEF LetGo
<1>9. ASSUME NEW c \in Cred, BeginRelease(c) PROVE TypeOK'
  <2>1. Labelled(Identity, c) \in SUBSET Identity /\ Labelled(Secret, c) \in SUBSET Secret
    BY DEF Labelled
  <2>2. w' \in ReleasePass
    BY <1>9, <2>1 DEF BeginRelease, ReleasePass
  <2> QED BY <1>9, <1>t, <1>w, <2>2 DEF BeginRelease, hist
<1>10. ASSUME ReleaseOne PROVE TypeOK'
  <2>1. w \in ReleasePass
    BY <1>10, PassKinds DEF ReleaseOne
  <2>2. PICK o \in Turn : /\ copy' = IF Exists(o) THEN [copy EXCEPT ![o] = Released(o, w.c)] ELSE copy
                          /\ w' = Past(o, FALSE)
    BY <1>10 DEF ReleaseOne
  <2>3. o \in Identity \cup Secret /\ w.c \in Cred /\ o \in Object
    BY <2>1, <2>2 DEF Turn, ReleasePass, Object
  <2>4. w' \in ReleasePass
    BY <2>1, <2>2, <2>3, PastType
  <2>5. Released(o, w.c) \in CopyRec
    BY <2>3, ReleasedType
  <2>6. copy' \in [Object -> CopyRec]
    BY <1>t, <2>2, <2>5
  <2> QED BY <1>10, <1>t, <1>w, <2>4, <2>6 DEF ReleaseOne, hist
<1>11. ASSUME ReleaseFails PROVE TypeOK'
  <2>1. w \in ReleasePass
    BY <1>11, PassKinds DEF ReleaseFails
  <2>2. PICK o \in Turn : /\ w' = Past(o, TRUE)
                          /\ torn' = IF o \in Secret THEN torn \cup {w.c} ELSE torn
    BY <1>11 DEF ReleaseFails
  <2>3. o \in Identity \cup Secret /\ w.c \in Cred
    BY <2>1, <2>2 DEF Turn, ReleasePass
  <2>4. w' \in ReleasePass
    BY <2>1, <2>2, <2>3, PastType
  <2>5. faults' \in 0..MaxFaults /\ torn' \subseteq Cred
    BY <1>11, <1>f, <1>t, <2>2, <2>3 DEF ReleaseFails
  <2> QED BY <1>11, <1>t, <1>w, <2>4, <2>5 DEF ReleaseFails
<1>12. ASSUME EndRelease PROVE TypeOK'
  <2>1. w.c \in Cred
    BY <1>12, PassKinds DEF EndRelease, ReleasePass
  <2>2. w' = Idle /\ queue' \subseteq Cred
    BY <1>12, <1>t, <2>1 DEF EndRelease, Retry
  <2>3. cred' = cred \/ cred' = FinalizerRemoved(w.c)
    BY <1>12 DEF EndRelease
  <2>4. cred' \in [Cred -> CredRec]
    BY <1>t, <2>1, <2>3, FinalizerRemovedType
  <2> QED BY <1>12, <1>t, <1>w, <2>2, <2>4 DEF EndRelease, hist
<1>13. ASSUME NEW c \in Cred, Forget(c) \/ Sync(c) PROVE TypeOK'
  BY <1>13, <1>t, <1>w DEF Forget, Sync, hist
<1>14. ASSUME Restart PROVE TypeOK'
  <2>1. torn' \subseteq Cred
    BY <1>14, <1>t, <1>s, PassKinds DEF Restart, CopyPass
  <2>2. faults' \in 0..MaxFaults
    BY <1>14, <1>f DEF Restart
  <2> QED BY <1>14, <1>t, <1>w, <2>1, <2>2 DEF Restart
<1>15. ASSUME NEW c \in Cred, UserEdits(c) PROVE TypeOK'
  <2>1. cred' \in [Cred -> CredRec]
    BY <1>15, <1>t DEF UserEdits, CredRec
  <2>2. w' \in {Idle} \cup CopyPass \cup ReleasePass
    BY <1>15, TouchedType DEF UserEdits
  <2>3. edits' \in 0..MaxEdits
    BY <1>15, <1>e DEF UserEdits
  <2> QED BY <1>15, <1>t, <1>w, <2>1, <2>2, <2>3 DEF UserEdits, hist
<1>16. ASSUME NEW c \in Cred, UserDeletes(c) PROVE TypeOK'
  <2>1. cred' \in [Cred -> CredRec]
    BY <1>16, <1>t DEF UserDeletes, CredRec
  <2>2. w' \in {Idle} \cup CopyPass \cup ReleasePass
    BY <1>16, TouchedType DEF UserDeletes
  <2>3. using' \in [Cred -> SUBSET Object]
    BY <1>16, <1>t DEF UserDeletes
  <2> QED BY <1>16, <1>t, <1>w, <2>1, <2>2, <2>3 DEF UserDeletes
<1>17. ASSUME NEW o \in Object, UserWritesSource(o) PROVE TypeOK'
  <2>1. NextRevision(src[o]) \in 0..MaxVer
    <3>1. src[o] \in Nat /\ MaxVer \in Nat /\ MaxVer > 0
      BY <1>t
    <3>2. src[o] % MaxVer \in 0..(MaxVer - 1)
      BY <3>1
    <3> QED BY <3>1, <3>2 DEF NextRevision
  <2>2. src' \in [Object -> 0..MaxVer]
    BY <1>17, <1>t, <2>1 DEF UserWritesSource
  <2>3. edits' \in 0..MaxEdits
    BY <1>17, <1>e DEF UserWritesSource
  <2> QED BY <1>17, <1>t, <1>w, <2>2, <2>3 DEF UserWritesSource, hist
<1>18. ASSUME NEW o \in Object, UserRemovesCopy(o) PROVE TypeOK'
  <2>1. copy' \in [Object -> CopyRec]
    BY <1>18, <1>t, AbsentType DEF UserRemovesCopy
  <2>2. using' \in [Cred -> SUBSET Object] /\ torn' \subseteq Cred
    BY <1>18, <1>t DEF UserRemovesCopy
  <2>3. edits' \in 0..MaxEdits
    BY <1>18, <1>e DEF UserRemovesCopy
  <2> QED BY <1>18, <1>t, <1>w, <2>1, <2>2, <2>3 DEF UserRemovesCopy
<1>19. ASSUME NEW s \in RegionState, RegionMoves(s) PROVE TypeOK'
  <2>1. edits' \in 0..MaxEdits
    BY <1>19, <1>t, <1>e DEF RegionMoves
  <2>2. queue' \subseteq Cred /\ region' = s
    BY <1>19, <1>t DEF RegionMoves
  <2>3. UNCHANGED <<cred, src, copy, w, faults, hist>>
    BY <1>19 DEF RegionMoves
  <2> QED BY <1>t, <1>w, <2>1, <2>2, <2>3 DEF hist
<1>20. CASE UNCHANGED vars
  BY <1>20, <1>t, <1>w DEF vars
<1> QED
  BY <1>1, <1>3, <1>4, <1>5, <1>6, <1>7, <1>8, <1>9, <1>10, <1>11, <1>12, <1>13, <1>14, <1>15,
     <1>16, <1>17, <1>18, <1>19, <1>20
  DEF Next, Pass, Work

LEMMA TypeInit == Init => TypeOK
<1> SUFFICES ASSUME Init PROVE TypeOK
  OBVIOUS
<1> USE CredentialsAssumption
<1>1. cred \in [Cred -> CredRec]
  BY DEF Init, CredRec
<1>2. copy \in [Object -> CopyRec]
  <2>1. [Absent EXCEPT !.ver = 1] \in CopyRec
    <3>1. 1 \in 0..MaxVer
      OBVIOUS
    <3> QED BY <3>1, AbsentType DEF CopyRec
  <2> QED BY <2>1, AbsentType DEF Init
<1>3. src \in [Object -> 0..MaxVer] /\ queue \subseteq Cred /\ region \in RegionState /\ w = Idle
  BY DEF Init, RegionState
<1>4. /\ edits \in 0..MaxEdits /\ faults \in 0..MaxFaults
      /\ using \in [Cred -> SUBSET Object] /\ unreleased \subseteq Cred /\ torn \subseteq Cred
  BY DEF Init
<1> QED BY <1>1, <1>2, <1>3, <1>4 DEF TypeOK, CredRec, CopyRec

\* Type correctness of the Credential controller, its copies and its histories, for every value of
\* the constants.
THEOREM CredentialsTypeOK == Spec => []TypeOK
<1>1. Init => TypeOK
  BY TypeInit
<1>2. TypeOK /\ [Next]_vars => TypeOK'
  BY TypeInductive
<1> QED BY <1>1, <1>2, PTL DEF Spec

-----------------------------------------------------------------------------
(* What the calls do to labels                                             *)

LEMMA StrandedBy ==
    ASSUME NEW c
    PROVE  Stranded(c) <=> (\E s \in Secret : Has(s, c)) /\ \A i \in Identity : ~Has(i, c)
BY DEF Stranded, Labelled, Has

LEMMA LeftBehindBy ==
    NothingLeftBehind <=>
       \A c \in Cred \ unreleased : cred[c].phase = "gone" =>
          /\ \A i \in Identity : ~Has(i, c)
          /\ c \notin torn => \A s \in Secret : ~Has(s, c)
BY DEF NothingLeftBehind, Labelled, Has

\* A write adds the label of its Credential to its object, and takes nothing from anybody.
LEMMA EnsuredLabels ==
    ASSUME TypeOK, NEW o \in Object, NEW v \in 0..MaxVer, v # 0, NEW c \in Cred,
           copy' = [copy EXCEPT ![o] = Ensured(o, v, c)]
    PROVE  /\ Exists(o)' /\ Held(o, c)'
           /\ \A x \in Object, d \in Cred :
                 /\ Held(x, d) => Held(x, d)'
                 /\ Has(x, d) => Has(x, d)'
                 /\ Has(x, d)' => Has(x, d) \/ (x = o /\ d = c)
                 /\ x # o => (Exists(x)' <=> Exists(x))
<1>t. copy \in [Object -> CopyRec]
  BY DEF TypeOK, CopyRec
<1>1. CASE ~Exists(o)
  <2>1. copy'[o] = [ver |-> v, by |-> {c}, managed |-> TRUE]
    BY <1>t, <1>1 DEF Ensured
  <2>2. \A x \in Object : x # o => copy'[x] = copy[x]
    BY <1>t
  <2> QED BY <1>1, <2>1, <2>2 DEF Exists, Has, Held
<1>2. CASE Exists(o) /\ ~copy[o].managed
  <2>1. copy' = copy
    BY <1>t, <1>2 DEF Ensured
  <2> QED BY <1>2, <2>1 DEF Exists, Has, Held
<1>3. CASE Exists(o) /\ copy[o].managed
  <2>1. copy[o] \in CopyRec /\ copy'[o] = [copy[o] EXCEPT !.ver = v, !.by = @ \cup {c}]
    BY <1>t, <1>3 DEF Ensured
  <2>2. copy'[o].ver = v /\ copy'[o].by = copy[o].by \cup {c} /\ copy'[o].managed = copy[o].managed
    BY <2>1 DEF CopyRec
  <2>3. \A x \in Object : x # o => copy'[x] = copy[x]
    BY <1>t
  <2> QED BY <1>3, <2>2, <2>3 DEF Exists, Has, Held
<1> QED BY <1>1, <1>2, <1>3

\* A release takes the label of its Credential off its object, and takes nothing from the others.
LEMMA ReleasedLabels ==
    ASSUME TypeOK, NEW o \in Object, NEW c \in Cred, Exists(o) => copy[o].managed,
           copy' = IF Exists(o) THEN [copy EXCEPT ![o] = Released(o, c)] ELSE copy
    PROVE  /\ ~Has(o, c)'
           /\ \A x \in Object : Exists(x)' => Exists(x) /\ copy'[x].managed = copy[x].managed
           /\ \A x \in Object, d \in Cred :
                 /\ Has(x, d)' => Has(x, d)
                 /\ d # c => (Held(x, d) => Held(x, d)') /\ (Has(x, d) => Has(x, d)')
                 /\ x # o /\ Has(x, d) => Has(x, d)'
<1>t. copy \in [Object -> CopyRec]
  BY DEF TypeOK, CopyRec
<1>1. CASE ~Exists(o)
  <2>1. copy' = copy
    BY <1>1
  <2> QED BY <1>1, <2>1 DEF Exists, Has, Held
<1>2. CASE Exists(o) /\ copy[o].by \ {c} = {}
  <2>1. copy'[o].ver = 0
    BY <1>t, <1>2 DEF Released, Absent
  <2>2. \A x \in Object : x # o => copy'[x] = copy[x]
    BY <1>t, <1>2
  <2> QED BY <1>2, <2>1, <2>2 DEF Exists, Has, Held
<1>3. CASE Exists(o) /\ copy[o].by \ {c} # {}
  <2>1. copy[o] \in CopyRec /\ copy'[o] = [copy[o] EXCEPT !.by = @ \ {c}]
    BY <1>t, <1>3 DEF Released
  <2>2. /\ copy'[o].ver = copy[o].ver /\ copy'[o].by = copy[o].by \ {c}
        /\ copy'[o].managed = copy[o].managed
    BY <2>1 DEF CopyRec
  <2>3. \A x \in Object : x # o => copy'[x] = copy[x]
    BY <1>t, <1>3
  <2> QED BY <1>3, <2>2, <2>3 DEF Exists, Has, Held
<1> QED BY <1>1, <1>2, <1>3

\* The fields of a release pass after one of its objects.
LEMMA PastFields ==
    ASSUME w \in ReleasePass, NEW o, o \in Turn, NEW f \in BOOLEAN, w' = Past(o, f)
    PROVE  /\ w'.op = "release" /\ w'.c = w.c /\ (w'.failed <=> w.failed \/ f)
           /\ o \in Secret => w'.refs = w.refs \ {o} /\ w'.ids = w.ids
           /\ o \in Identity =>
                 /\ w'.ids = w.ids \ {o} /\ w.refs = {}
                 /\ w'.refs = IF w.ids = {o} THEN {} ELSE Labelled(Secret, w.c)
<1>1. o \in Identity \cup Secret /\ (o \in Identity => w.refs = {})
  BY CredentialsAssumption DEF Turn, ReleasePass
<1>2. CASE o \in Secret
  <2>1. w' = [w EXCEPT !.refs = @ \ {o}, !.failed = @ \/ f] /\ o \notin Identity
    BY <1>2, CredentialsAssumption DEF Past
  <2> QED BY <1>2, <2>1 DEF ReleasePass
<1>3. CASE o \notin Secret
  <2>1. w' = [w EXCEPT !.ids = @ \ {o}, !.failed = @ \/ f,
                       !.refs = IF w.ids = {o} THEN @ ELSE @ \cup Labelled(Secret, w.c)]
    BY <1>3 DEF Past
  <2>2. w'.refs = IF w.ids = {o} THEN w.refs ELSE w.refs \cup Labelled(Secret, w.c)
    BY <2>1 DEF ReleasePass
  <2>3. w'.op = "release" /\ w'.c = w.c /\ (w'.failed <=> w.failed \/ f) /\ w'.ids = w.ids \ {o}
    BY <2>1 DEF ReleasePass
  <2> QED BY <1>1, <1>3, <2>2, <2>3
<1> QED BY <1>2, <1>3

-----------------------------------------------------------------------------
(* Safety                                                                  *)

\* The pass goes on, its Credential written meanwhile or not.
SamePass ==
    /\ w'.op = w.op
    /\ w.op = "copy" => /\ w'.c = w.c /\ w'.ref = w.ref /\ w'.todo = w.todo /\ w'.ver = w.ver
                        /\ w'.fresh => w.fresh
    /\ w.op = "release" => /\ w'.c = w.c /\ w'.ids = w.ids /\ w'.refs = w.refs
                           /\ w'.failed = w.failed

LEMMA TouchedFields ==
    ASSUME TypeOK, NEW c \in Cred, w' = Touched(c)
    PROVE  SamePass /\ (w.op = "copy" /\ w.c = c => ~w'.fresh)
<1>1. CASE w \in CopyPass
  BY <1>1 DEF Touched, CopyPass, SamePass
<1>2. CASE w \in ReleasePass
  BY <1>2 DEF Touched, ReleasePass, SamePass
<1>3. CASE w = Idle
  BY <1>3 DEF Touched, Idle, SamePass
<1> QED BY <1>1, <1>2, <1>3 DEF TypeOK

\* Steps that leave the copies alone: the pass goes on, or ends with its stranded Secrets recorded.
LEMMA Steady ==
    ASSUME TypeOK, SafetyInv, UNCHANGED <<copy, using>>,
           torn \subseteq torn', unreleased \subseteq unreleased',
           \A c \in Cred : /\ cred'[c].phase = cred[c].phase
                           /\ cred[c].finalizer => cred'[c].finalizer,
           \/ SamePass
           \/ w' = Idle /\ (w.op = "copy" => w.c \in torn' \/ ~Stranded(w.c))
    PROVE  SafetyInv'
<1>h. \A o, c : (Has(o, c)' <=> Has(o, c)) /\ (Held(o, c)' <=> Held(o, c))
  BY DEF Has, Held, Exists
<1>s. \A c : Stranded(c)' <=> Stranded(c)
  BY DEF Stranded, Labelled, Exists
<1>c. (w.op = "copy" => w.c \in Cred) /\ (w.op = "release" => w.c \in Cred)
  BY PassKinds DEF CopyPass, ReleasePass
<1>1. PassInv'
  <2>1. CASE w' = Idle
    BY <2>1 DEF PassInv, Idle
  <2>2. CASE SamePass
    <3>1. ASSUME w.op = "copy" PROVE PassInv'
      <4>1. /\ cred'[w'.c].finalizer /\ cred'[w'.c].phase # "gone"
            /\ w'.fresh => cred'[w'.c].phase = "live"
        BY <2>2, <3>1, <1>c DEF SafetyInv, PassInv, SamePass
      <4>2. \A o \in w'.todo : w'.ver[o] # 0
        BY <2>2, <3>1 DEF SafetyInv, PassInv, SamePass
      <4>3. \A o \in Needs(w'.ref) \ w'.todo : (Exists(o) => Held(o, w.c))'
        <5>1. \A o \in Needs(w.ref) \ w.todo : Exists(o) => Held(o, w.c)
          BY <3>1 DEF SafetyInv, PassInv
        <5>2. w'.ref = w.ref /\ w'.todo = w.todo /\ w'.c = w.c
          BY <2>2, <3>1 DEF SamePass
        <5> QED BY <1>h, <5>1, <5>2 DEF Exists, Held, Needs
      <4>4. w'.op = "copy"
        BY <2>2, <3>1 DEF SamePass
      <4> QED BY <4>1, <4>2, <4>3, <4>4 DEF PassInv
    <3>2. ASSUME w.op = "release" PROVE PassInv'
      <4>1. w'.op = "release" /\ w'.c = w.c /\ w'.ids = w.ids /\ w'.refs = w.refs /\ w'.failed = w.failed
        BY <2>2, <3>2 DEF SamePass
      <4>2. /\ cred[w.c].phase = "deleting"
            /\ \A o \in w.ids \cup w.refs : Exists(o) => copy[o].managed
            /\ w.c \notin torn => \A s \in Secret : Has(s, w.c) => s \in w.refs
            /\ ~w.failed => \A i \in Identity : Has(i, w.c) => i \in w.ids
        BY <3>2 DEF SafetyInv, PassInv
      <4> QED BY <1>c, <3>2, <4>1, <4>2 DEF PassInv, Has, Exists
    <3>3. ASSUME w.op \notin {"copy", "release"} PROVE PassInv'
      BY <2>2, <3>3 DEF PassInv, SamePass
    <3> QED BY <3>1, <3>2, <3>3
  <2> QED BY <2>1, <2>2
<1>2. UseInv'
  BY <1>h DEF SafetyInv, UseInv
<1>3. LabelInv'
  <2> SUFFICES ASSUME NEW c \in Cred
               PROVE  /\ ~cred'[c].finalizer => \A o \in Object : ~Has(o, c)'
                      /\ c \notin torn' /\ Stranded(c)' => w'.op = "copy" /\ w'.c = c
    BY DEF LabelInv
  <2>1. ~cred'[c].finalizer => \A o \in Object : ~Has(o, c)'
    BY <1>h DEF SafetyInv, LabelInv
  <2>2. ASSUME c \notin torn', Stranded(c)' PROVE w'.op = "copy" /\ w'.c = c
    <3>1. w.op = "copy" /\ w.c = c
      BY <1>s, <2>2 DEF SafetyInv, LabelInv
    <3> QED BY <1>s, <2>2, <3>1 DEF SamePass
  <2> QED BY <2>1, <2>2
<1>4. NothingLeftBehind'
  BY DEF SafetyInv, NothingLeftBehind, Labelled, Exists
<1> QED BY <1>1, <1>2, <1>3, <1>4 DEF SafetyInv

\* A pass that lists its work: a copy with the revisions it read, a release with what it found.
LEMMA CollectSafe ==
    ASSUME TypeOK, SafetyInv, NEW c \in Cred, Collect(c), w'.op = "copy" PROVE SafetyInv'
<1>1. /\ w = Idle /\ cred[c].phase = "live" /\ cred[c].finalizer
      /\ w' = [op |-> "copy", c |-> c, ref |-> cred[c].ref, todo |-> Needs(cred[c].ref),
               ver |-> [o \in Object |-> IF o \in Needs(cred[c].ref) THEN src[o] ELSE 0],
               fresh |-> TRUE]
      /\ \A o \in Needs(cred[c].ref) : src[o] # 0
      /\ UNCHANGED <<cred, copy, using, unreleased, torn>>
  <2>1. ~Ended(c, cred[c].ready, TRUE)
    BY DEF Ended, StatusWritten, Idle
  <2> QED BY <2>1 DEF Collect, hist
<1>2. cred[c].ref \in Identity
  BY DEF TypeOK
<1>3. Needs(cred[c].ref) \subseteq Object
  BY <1>2, NeedsType
<1>4. PassInv'
  BY <1>1, <1>3 DEF PassInv
<1>5. UseInv'
  BY <1>1 DEF SafetyInv, UseInv, Held, Exists
<1>6. LabelInv'
  BY <1>1 DEF SafetyInv, LabelInv, Has, Exists, Stranded, Labelled, Idle
<1>7. NothingLeftBehind'
  BY <1>1 DEF SafetyInv, NothingLeftBehind, Labelled, Exists
<1> QED BY <1>4, <1>5, <1>6, <1>7 DEF SafetyInv

LEMMA BeginReleaseSafe ==
    ASSUME TypeOK, SafetyInv, NEW c \in Cred, BeginRelease(c) PROVE SafetyInv'
<1>1. /\ w = Idle /\ cred[c].phase = "deleting"
      /\ w' = [op |-> "release", c |-> c, ids |-> Labelled(Identity, c),
               refs |-> Labelled(Secret, c), failed |-> FALSE, fresh |-> TRUE]
      /\ UNCHANGED <<cred, copy, using, unreleased, torn>>
  BY DEF BeginRelease, hist
<1>2. PassInv'
  BY <1>1 DEF PassInv, Labelled, Has, Exists
<1>3. UseInv'
  BY <1>1 DEF SafetyInv, UseInv, Held, Exists
<1>4. LabelInv'
  BY <1>1 DEF SafetyInv, LabelInv, Has, Exists, Stranded, Labelled, Idle
<1>5. NothingLeftBehind'
  BY <1>1 DEF SafetyInv, NothingLeftBehind, Labelled, Exists
<1> QED BY <1>2, <1>3, <1>4, <1>5 DEF SafetyInv

\* The write of one object adds a label to a Credential that has its finalizer and is not gone.
LEMMA CopyOneSafe == ASSUME TypeOK, SafetyInv, CopyOne PROVE SafetyInv'
<1>1. w \in CopyPass /\ w.op = "copy"
  BY PassKinds DEF CopyOne
<1>2. PICK o \in FirstOf(w.todo) : /\ copy' = [copy EXCEPT ![o] = Ensured(o, w.ver[o], w.c)]
                                   /\ w' = [w EXCEPT !.todo = @ \ {o}]
  BY DEF CopyOne
<1>3. o \in w.todo /\ o \in Object /\ w.ver[o] \in 0..MaxVer /\ w.c \in Cred /\ w.ref \in Identity
  BY <1>1, <1>2 DEF FirstOf, CopyPass
<1>4. UNCHANGED <<cred, using, unreleased, torn>>
  BY DEF CopyOne, hist
<1>5. w'.op = "copy" /\ w'.c = w.c /\ w'.ref = w.ref /\ w'.todo = w.todo \ {o} /\ w'.ver = w.ver /\ w'.fresh = w.fresh
  BY <1>1, <1>2 DEF CopyPass
<1>6. /\ cred[w.c].finalizer /\ cred[w.c].phase # "gone"
      /\ w.fresh => cred[w.c].phase = "live"
      /\ \A x \in w.todo : w.ver[x] # 0
      /\ \A x \in Needs(w.ref) \ w.todo : Exists(x) => Held(x, w.c)
  BY <1>1 DEF SafetyInv, PassInv
<1>7. /\ Exists(o)' /\ Held(o, w.c)'
      /\ \A x \in Object, d \in Cred :
            /\ Held(x, d) => Held(x, d)'
            /\ Has(x, d) => Has(x, d)'
            /\ Has(x, d)' => Has(x, d) \/ (x = o /\ d = w.c)
            /\ x # o => (Exists(x)' <=> Exists(x))
  <2>1. w.ver[o] # 0
    BY <1>3, <1>6
  <2>2. ASSUME NEW v, v = w.ver[o], NEW c, c = w.c
        PROVE  /\ Exists(o)' /\ Held(o, c)'
               /\ \A x \in Object, d \in Cred :
                     /\ Held(x, d) => Held(x, d)'
                     /\ Has(x, d) => Has(x, d)'
                     /\ Has(x, d)' => Has(x, d) \/ (x = o /\ d = c)
                     /\ x # o => (Exists(x)' <=> Exists(x))
    <3>1. v \in 0..MaxVer /\ v # 0 /\ c \in Cred
      BY <1>3, <2>1, <2>2
    <3>2. copy' = [copy EXCEPT ![o] = Ensured(o, v, c)]
      BY <1>2, <2>2
    <3> QED BY <1>3, <3>1, <3>2, EnsuredLabels
  <2> QED BY <1>5, <2>2 DEF Held, Exists
<1>8. Needs(w.ref) \subseteq Object
  BY <1>3, NeedsType
<1>9. PassInv'
  <2>1. \A x \in Needs(w.ref) \ w'.todo : (Exists(x) => Held(x, w.c))'
    <3> SUFFICES ASSUME NEW x \in Needs(w.ref) \ w'.todo, Exists(x)' PROVE Held(x, w.c)'
      OBVIOUS
    <3>1. CASE x = o
      BY <1>7, <3>1
    <3>2. CASE x # o
      <4>1. x \in Object /\ Exists(x) /\ Held(x, w.c)
        <5>1. x \in Object /\ x \in Needs(w.ref) \ w.todo
          BY <1>5, <1>8, <3>2
        <5>2. Exists(x)
          BY <1>3, <1>7, <3>2, <5>1
        <5> QED BY <1>6, <5>1, <5>2
      <4> QED BY <1>3, <1>5, <1>7, <4>1 DEF Held, Exists
    <3> QED BY <3>1, <3>2
  <2> QED BY <1>4, <1>5, <1>6, <2>1 DEF PassInv, Needs
<1>10. UseInv'
  BY <1>4, <1>7 DEF SafetyInv, UseInv, TypeOK
<1>11. LabelInv'
  <2> SUFFICES ASSUME NEW c \in Cred
               PROVE  /\ ~cred'[c].finalizer => \A x \in Object : ~Has(x, c)'
                      /\ c \notin torn' /\ Stranded(c)' => w'.op = "copy" /\ w'.c = c
    BY DEF LabelInv
  <2>1. ~cred'[c].finalizer => \A x \in Object : ~Has(x, c)'
    BY <1>4, <1>6, <1>7 DEF SafetyInv, LabelInv
  <2>2. ASSUME c \notin torn', Stranded(c)', c # w.c PROVE FALSE
    <3>1. (\E s \in Secret : Has(s, c)') /\ \A i \in Identity : ~Has(i, c)'
      BY <2>2 DEF Stranded, Labelled, Has
    <3>2. (\E s \in Secret : Has(s, c)) /\ \A i \in Identity : ~Has(i, c)
      BY <1>7, <2>2, <3>1 DEF Object
    <3> QED BY <1>4, <2>2, <3>2, StrandedBy DEF SafetyInv, LabelInv
  <2> QED BY <1>5, <2>1, <2>2
<1>12. NothingLeftBehind'
  <2>1. \A c \in Cred \ unreleased : cred[c].phase = "gone" =>
           /\ c # w.c
           /\ \A i \in Identity : ~Has(i, c)
           /\ c \notin torn => \A s \in Secret : ~Has(s, c)
    BY <1>6, LeftBehindBy DEF SafetyInv
  <2>2. \A c \in Cred \ unreleased' : cred'[c].phase = "gone" =>
           /\ \A i \in Identity : ~Has(i, c)'
           /\ c \notin torn' => \A s \in Secret : ~Has(s, c)'
    BY <1>4, <1>7, <2>1 DEF Object
  <2> QED BY <2>2 DEF NothingLeftBehind, Labelled, Has
<1> QED BY <1>9, <1>10, <1>11, <1>12 DEF SafetyInv

\* The identity read back: what is in place is used from here on, by a Credential that is live.
LEMMA CheckIdentitySafe == ASSUME TypeOK, SafetyInv, CheckIdentity PROVE SafetyInv'
<1>1. w \in CopyPass /\ w.op = "copy" /\ w.todo = {}
  BY PassKinds DEF CheckIdentity
<1>2. w.c \in Cred /\ w.fresh \in BOOLEAN /\ w.ref \in Identity
  BY <1>1 DEF CopyPass
<1>3. UNCHANGED <<copy, unreleased>> /\ torn' = torn \cup StrandedOf(w.c)
  BY DEF CheckIdentity
<1>4. /\ w' = Idle
      /\ \A d \in Cred : cred'[d].phase = cred[d].phase /\ cred'[d].finalizer = cred[d].finalizer
  <2>1. StatusWritten(w.c, w.fresh, Exists(w.ref), ~Exists(w.ref), queue)
    BY DEF CheckIdentity
  <2>2. Exists(w.ref) \in BOOLEAN /\ (~Exists(w.ref)) \in BOOLEAN /\ queue \in SUBSET Cred
    BY DEF Exists, TypeOK
  <2> QED BY <1>2, <2>1, <2>2, StatusType
<1>h. \A o, c : (Has(o, c)' <=> Has(o, c)) /\ (Held(o, c)' <=> Held(o, c)) /\ (Exists(o)' <=> Exists(o))
  BY <1>3 DEF Has, Held, Exists
<1>5. UseInv'
  <2>1. CASE using' = using
    BY <1>4, <1>h, <2>1 DEF SafetyInv, UseInv
  <2>2. CASE w.fresh /\ using' = [using EXCEPT ![w.c] = {o \in Needs(w.ref) : Exists(o)}]
    <3>1. cred[w.c].phase = "live" /\ \A o \in Needs(w.ref) : Exists(o) => Held(o, w.c)
      BY <1>1, <2>2 DEF SafetyInv, PassInv
    <3>2. \A d \in Cred : using'[d] = IF d = w.c THEN {o \in Needs(w.ref) : Exists(o)} ELSE using[d]
      BY <1>2, <2>2 DEF TypeOK
    <3>3. \A d \in Cred : /\ cred[d].phase # "live" => using[d] = {}
                          /\ \A o \in using[d] : Held(o, d)
      BY DEF SafetyInv, UseInv
    <3>4. \A d \in Cred : /\ cred'[d].phase # "live" => using'[d] = {}
                          /\ \A o \in using'[d] : Held(o, d)
      BY <1>4, <3>1, <3>2, <3>3
    <3> QED BY <1>h, <3>4 DEF UseInv
  <2> QED BY <2>1, <2>2 DEF CheckIdentity
<1>6. PassInv'
  BY <1>4 DEF PassInv, Idle
<1>7. LabelInv'
  <2>1. \A c \in Cred : ~cred'[c].finalizer => \A o \in Object : ~Has(o, c)'
    BY <1>4, <1>h DEF SafetyInv, LabelInv
  <2>2. ASSUME NEW c \in Cred, c \notin torn', Stranded(c)' PROVE FALSE
    <3>1. Stranded(c) /\ c \notin torn /\ c \notin StrandedOf(w.c)
      BY <1>3, <2>2 DEF Stranded, Labelled, Exists
    <3>2. c = w.c
      BY <3>1 DEF SafetyInv, LabelInv
    <3> QED BY <3>1, <3>2 DEF StrandedOf
  <2> QED BY <2>1, <2>2 DEF LabelInv
<1>8. NothingLeftBehind'
  BY <1>3, <1>4 DEF SafetyInv, NothingLeftBehind, Labelled, Exists
<1> QED BY <1>5, <1>6, <1>7, <1>8 DEF SafetyInv

\* The release of one object takes nothing from a Credential that uses it, and what is still
\* labelled is still to come.
LEMMA ReleaseOneSafe == ASSUME TypeOK, SafetyInv, ReleaseOne PROVE SafetyInv'
<1>1. w \in ReleasePass /\ w.op = "release"
  BY PassKinds DEF ReleaseOne
<1>2. PICK o \in Turn : /\ copy' = IF Exists(o) THEN [copy EXCEPT ![o] = Released(o, w.c)] ELSE copy
                        /\ w' = Past(o, FALSE)
  BY DEF ReleaseOne
<1>3. /\ o \in w.ids \cup w.refs /\ o \in Object /\ o \in Identity \cup Secret
      /\ w.c \in Cred /\ w.failed \in BOOLEAN
  BY <1>1, <1>2 DEF Turn, ReleasePass, Object
<1>4. UNCHANGED <<cred, using, unreleased, torn>>
  BY DEF ReleaseOne, hist
<1>5. /\ w'.op = "release" /\ w'.c = w.c /\ (w'.failed <=> w.failed)
      /\ o \in Secret => w'.refs = w.refs \ {o} /\ w'.ids = w.ids
      /\ o \in Identity =>
            /\ w'.ids = w.ids \ {o} /\ w.refs = {}
            /\ w'.refs = IF w.ids = {o} THEN {} ELSE Labelled(Secret, w.c)
  BY <1>1, <1>2, PastFields
<1>6. /\ cred[w.c].phase = "deleting"
      /\ \A x \in w.ids \cup w.refs : Exists(x) => copy[x].managed
      /\ w.c \notin torn => \A s \in Secret : Has(s, w.c) => s \in w.refs
      /\ ~w.failed => \A i \in Identity : Has(i, w.c) => i \in w.ids
  BY <1>1 DEF SafetyInv, PassInv
<1>7. ASSUME NEW c, c = w.c
      PROVE  /\ ~Has(o, c)'
             /\ \A x \in Object : Exists(x)' => Exists(x) /\ copy'[x].managed = copy[x].managed
             /\ \A x \in Object, d \in Cred :
                   /\ Has(x, d)' => Has(x, d)
                   /\ d # c => (Held(x, d) => Held(x, d)') /\ (Has(x, d) => Has(x, d)')
                   /\ x # o /\ Has(x, d) => Has(x, d)'
  <2>1. c \in Cred /\ (Exists(o) => copy[o].managed)
    BY <1>3, <1>6, <1>7
  <2>2. copy' = IF Exists(o) THEN [copy EXCEPT ![o] = Released(o, c)] ELSE copy
    BY <1>2, <1>7
  <2> QED BY <1>3, <2>1, <2>2, ReleasedLabels
<1>8. PICK c \in Cred : c = w.c
  BY <1>3
<1>9. /\ ~Has(o, c)'
      /\ \A x \in Object : Exists(x)' => Exists(x) /\ copy'[x].managed = copy[x].managed
      /\ \A x \in Object, d \in Cred :
            /\ Has(x, d)' => Has(x, d)
            /\ d # c => (Held(x, d) => Held(x, d)') /\ (Has(x, d) => Has(x, d)')
            /\ x # o /\ Has(x, d) => Has(x, d)'
  BY <1>7, <1>8
<1>10. PassInv'
  <2>1. \A x \in w'.ids \cup w'.refs : x \in Object /\ (Exists(x)' => copy'[x].managed)
    <3>1. \A x \in w'.ids \cup w'.refs : x \in Object /\ (Exists(x) => copy[x].managed)
      BY <1>1, <1>3, <1>5, <1>6 DEF Labelled, ReleasePass, Object
    <3> QED BY <1>9, <3>1
  <2>2. c \notin torn => \A s \in Secret : Has(s, c)' => s \in w'.refs
    <3>1. CASE o \in Secret
      BY <1>5, <1>6, <1>8, <1>9, <3>1 DEF Object
    <3>2. CASE o \in Identity
      BY <1>5, <1>6, <1>8, <1>9, <3>2 DEF Object
    <3> QED BY <1>3, <3>1, <3>2
  <2>3. ~w.failed => \A i \in Identity : Has(i, c)' => i \in w'.ids
    BY <1>3, <1>5, <1>6, <1>8, <1>9 DEF Object
  <2>4. c = w'.c
    BY <1>5, <1>8
  <2> QED BY <1>4, <1>5, <1>6, <1>8, <2>1, <2>2, <2>3, <2>4 DEF PassInv, Has, Exists
<1>11. UseInv'
  <2> SUFFICES ASSUME NEW d \in Cred
               PROVE  /\ cred'[d].phase # "live" => using'[d] = {}
                      /\ \A x \in using'[d] : Held(x, d)'
    BY DEF UseInv
  <2>1. /\ cred[d].phase # "live" => using[d] = {}
        /\ \A x \in using[d] : Held(x, d)
        /\ using[d] \subseteq Object
    BY DEF SafetyInv, UseInv, TypeOK
  <2>2. CASE d = c
    BY <1>4, <1>6, <1>8, <2>1, <2>2
  <2>3. CASE d # c
    BY <1>4, <1>9, <2>1, <2>3
  <2> QED BY <2>2, <2>3
<1>12. LabelInv'
  <2> SUFFICES ASSUME NEW d \in Cred
               PROVE  /\ ~cred'[d].finalizer => \A x \in Object : ~Has(x, d)'
                      /\ ~(d \notin torn' /\ Stranded(d)')
    BY DEF LabelInv
  <2>1. ~cred'[d].finalizer => \A x \in Object : ~Has(x, d)'
    BY <1>4, <1>9 DEF SafetyInv, LabelInv
  <2>2. ASSUME d \notin torn', Stranded(d)' PROVE FALSE
    <3>1. (\E s \in Secret : Has(s, d)') /\ \A i \in Identity : ~Has(i, d)'
      BY <2>2 DEF Stranded, Labelled, Has
    <3>2. PICK s \in Secret : Has(s, d)' /\ Has(s, d)
      BY <1>9, <3>1 DEF Object
    <3>3. ~Stranded(d)
      BY <1>1, <1>4, <2>2 DEF SafetyInv, LabelInv
    <3>4. PICK i \in Identity : Has(i, d)
      BY <3>2, <3>3, StrandedBy
    <3>5. i \in Object /\ ~Has(i, d)'
      BY <3>1 DEF Object
    <3>6. d = c /\ i = o
      BY <1>9, <3>4, <3>5
    <3>7. w.refs = {}
      BY <1>5, <3>6
    <3> QED BY <1>4, <1>6, <1>8, <2>2, <3>2, <3>6, <3>7
  <2> QED BY <2>1, <2>2
<1>13. NothingLeftBehind'
  <2>1. \A d \in Cred \ unreleased' : cred'[d].phase = "gone" =>
           /\ \A i \in Identity : ~Has(i, d)'
           /\ d \notin torn' => \A s \in Secret : ~Has(s, d)'
    BY <1>4, <1>9, LeftBehindBy DEF SafetyInv, Object
  <2> QED BY <2>1 DEF NothingLeftBehind, Labelled, Has
<1> QED BY <1>10, <1>11, <1>12, <1>13 DEF SafetyInv

\* A failed call leaves its object labelled: the release is marked as failed, and a Secret is torn.
LEMMA ReleaseFailsSafe == ASSUME TypeOK, SafetyInv, ReleaseFails PROVE SafetyInv'
<1>1. w \in ReleasePass /\ w.op = "release"
  BY PassKinds DEF ReleaseFails
<1>2. PICK o \in Turn : w' = Past(o, TRUE) /\ torn' = IF o \in Secret THEN torn \cup {w.c} ELSE torn
  BY DEF ReleaseFails
<1>3. /\ o \in w.ids \cup w.refs /\ o \in Identity \cup Secret /\ w.c \in Cred /\ w.failed \in BOOLEAN
  BY <1>1, <1>2 DEF Turn, ReleasePass
<1>4. UNCHANGED <<cred, copy, using, unreleased>>
  BY DEF ReleaseFails
<1>5. /\ w'.op = "release" /\ w'.c = w.c /\ w'.failed
      /\ o \in Secret => w'.refs = w.refs \ {o} /\ w'.ids = w.ids
      /\ o \in Identity =>
            /\ w'.ids = w.ids \ {o} /\ w.refs = {}
            /\ w'.refs = IF w.ids = {o} THEN {} ELSE Labelled(Secret, w.c)
  BY <1>1, <1>2, PastFields
<1>6. /\ cred[w.c].phase = "deleting"
      /\ \A x \in w.ids \cup w.refs : Exists(x) => copy[x].managed
      /\ w.c \notin torn => \A s \in Secret : Has(s, w.c) => s \in w.refs
  BY <1>1 DEF SafetyInv, PassInv
<1>h. \A x, c : (Has(x, c)' <=> Has(x, c)) /\ (Held(x, c)' <=> Held(x, c)) /\ (Exists(x)' <=> Exists(x))
  BY <1>4 DEF Has, Held, Exists
<1>7. PassInv'
  <2>1. \A x \in w'.ids \cup w'.refs : Exists(x) => copy[x].managed
    BY <1>3, <1>5, <1>6 DEF Labelled
  <2>2. w.c \notin torn' => \A s \in Secret : Has(s, w.c) => s \in w'.refs
    BY <1>2, <1>3, <1>5, <1>6
  <2> QED BY <1>4, <1>5, <1>6, <2>1, <2>2 DEF PassInv, Has, Exists
<1>8. UseInv'
  BY <1>4, <1>h DEF SafetyInv, UseInv
<1>9. LabelInv'
  <2>1. \A c \in Cred : c \notin torn' => ~Stranded(c)
    BY <1>1, <1>2 DEF SafetyInv, LabelInv
  <2>2. \A c : Stranded(c)' <=> Stranded(c)
    BY <1>4 DEF Stranded, Labelled, Exists
  <2> QED BY <1>4, <1>h, <2>1, <2>2 DEF SafetyInv, LabelInv
<1>10. NothingLeftBehind'
  <2>1. torn \subseteq torn'
    BY <1>2
  <2> QED BY <1>4, <2>1 DEF SafetyInv, NothingLeftBehind, Labelled, Exists
<1> QED BY <1>7, <1>8, <1>9, <1>10 DEF SafetyInv

\* A Credential goes with nothing labelled, or on the record that it went unreleased.
LEMMA GoneSafe ==
    ASSUME TypeOK, SafetyInv, NEW c \in Cred, cred' = FinalizerRemoved(c), w' = Idle,
           UNCHANGED <<copy, using, torn>>, unreleased \subseteq unreleased',
           cred[c].phase = "deleting", w.op # "copy",
           c \notin unreleased' => /\ \A i \in Identity : ~Has(i, c)
                                   /\ c \notin torn => \A s \in Secret : ~Has(s, c)
    PROVE  SafetyInv'
<1>1. \A d \in Cred : /\ cred'[d].phase = IF d = c THEN "gone" ELSE cred[d].phase
                      /\ cred'[d].finalizer = cred[d].finalizer
  <2>1. cred \in [Cred -> CredRec]
    BY DEF TypeOK, CredRec
  <2> QED BY <2>1, FinalizerRemovedType
<1>h. \A x, d : (Has(x, d)' <=> Has(x, d)) /\ (Held(x, d)' <=> Held(x, d))
  BY DEF Has, Held, Exists
<1>2. PassInv'
  BY DEF PassInv, Idle
<1>3. UseInv'
  BY <1>1, <1>h DEF SafetyInv, UseInv
<1>4. LabelInv'
  <2>1. \A d : Stranded(d)' <=> Stranded(d)
    BY DEF Stranded, Labelled, Exists
  <2> QED BY <1>1, <1>h, <2>1 DEF SafetyInv, LabelInv
<1>5. NothingLeftBehind'
  <2>1. \A d \in Cred \ unreleased' : cred'[d].phase = "gone" =>
           /\ \A i \in Identity : ~Has(i, d)
           /\ d \notin torn => \A s \in Secret : ~Has(s, d)
    <3>1. \A d \in Cred \ unreleased : cred[d].phase = "gone" =>
             /\ \A i \in Identity : ~Has(i, d)
             /\ d \notin torn => \A s \in Secret : ~Has(s, d)
      BY LeftBehindBy DEF SafetyInv
    <3> SUFFICES ASSUME NEW d \in Cred \ unreleased', cred'[d].phase = "gone"
                 PROVE  /\ \A i \in Identity : ~Has(i, d)
                        /\ d \notin torn => \A s \in Secret : ~Has(s, d)
      OBVIOUS
    <3>2. CASE d = c
      BY <3>2
    <3>3. CASE d # c
      <4>1. d \in Cred \ unreleased /\ cred[d].phase = "gone"
        BY <1>1, <3>3
      <4> QED BY <3>1, <4>1
    <3> QED BY <3>2, <3>3
  <2>2. \A d \in Cred \ unreleased' : cred'[d].phase = "gone" =>
           /\ \A i \in Identity : ~Has(i, d)'
           /\ d \notin torn' => \A s \in Secret : ~Has(s, d)'
    BY <1>h, <2>1
  <2> QED BY <2>2 DEF NothingLeftBehind, Labelled, Has
<1> QED BY <1>2, <1>3, <1>4, <1>5 DEF SafetyInv

LEMMA LetGoSafe == ASSUME TypeOK, SafetyInv, NEW c \in Cred, LetGo(c) PROVE SafetyInv'
<1>1. /\ w = Idle /\ w' = Idle /\ cred[c].phase = "deleting" /\ cred' = FinalizerRemoved(c)
      /\ UNCHANGED <<copy, using, torn>> /\ unreleased \subseteq unreleased'
      /\ c \in unreleased' \/ Labelled(Identity, c) = {}
  BY DEF LetGo
<1>2. w.op # "copy"
  BY <1>1 DEF Idle
<1>3. Labelled(Identity, c) = {} =>
         /\ \A i \in Identity : ~Has(i, c)
         /\ c \notin torn => \A s \in Secret : ~Has(s, c)
  <2>1. Labelled(Identity, c) = {} => \A i \in Identity : ~Has(i, c)
    BY DEF Labelled, Has
  <2>2. c \notin torn => ~Stranded(c)
    BY <1>2 DEF SafetyInv, LabelInv
  <2> QED BY <2>1, <2>2, StrandedBy
<1> QED BY <1>1, <1>2, <1>3, GoneSafe

LEMMA EndReleaseSafe == ASSUME TypeOK, SafetyInv, EndRelease PROVE SafetyInv'
<1>1. w \in ReleasePass /\ w.op = "release" /\ w.ids = {} /\ w.refs = {} /\ w.c \in Cred
  BY PassKinds DEF EndRelease, ReleasePass
<1>2. UNCHANGED <<copy, using, unreleased, torn>> /\ w' = Idle
  BY DEF EndRelease, hist, Retry
<1>3. CASE UNCHANGED cred
  BY <1>1, <1>2, <1>3, Steady
<1>4. CASE ~w.failed /\ cred' = FinalizerRemoved(w.c)
  <2>1. PICK c \in Cred : c = w.c
    BY <1>1
  <2>2. /\ cred[c].phase = "deleting"
        /\ c \notin torn => \A s \in Secret : ~Has(s, c)
        /\ \A i \in Identity : ~Has(i, c)
    BY <1>1, <1>4, <2>1 DEF SafetyInv, PassInv
  <2>3. cred' = FinalizerRemoved(c)
    BY <1>4, <2>1
  <2> QED BY <1>1, <1>2, <2>2, <2>3, GoneSafe
<1> QED BY <1>3, <1>4 DEF EndRelease

\* A deletion ends the use; a Credential without a finalizer has no label anywhere.
LEMMA UserDeletesSafe == ASSUME TypeOK, SafetyInv, NEW c \in Cred, UserDeletes(c) PROVE SafetyInv'
<1>1. /\ cred[c].phase = "live" /\ UNCHANGED <<copy, unreleased, torn>>
      /\ using' = [using EXCEPT ![c] = {}] /\ w' = Touched(c)
  BY DEF UserDeletes
<1>2. \A d \in Cred : /\ d # c => cred'[d] = cred[d]
                      /\ cred'[d].finalizer = cred[d].finalizer
  BY DEF UserDeletes, TypeOK
<1>3. cred'[c].phase = IF cred[c].finalizer THEN "deleting" ELSE "gone"
  BY DEF UserDeletes, TypeOK
<1>4. SamePass /\ (w.op = "copy" /\ w.c = c => ~w'.fresh)
  BY <1>1, TouchedFields
<1>h. \A x, d : (Has(x, d)' <=> Has(x, d)) /\ (Held(x, d)' <=> Held(x, d)) /\ (Exists(x)' <=> Exists(x))
  BY <1>1 DEF Has, Held, Exists
<1>5. PassInv'
  <2>1. ASSUME w.op = "copy" PROVE PassInv'
    <3>1. /\ cred[w.c].finalizer /\ cred[w.c].phase # "gone"
          /\ w.fresh => cred[w.c].phase = "live"
          /\ \A o \in w.todo : w.ver[o] # 0
          /\ \A o \in Needs(w.ref) \ w.todo : Exists(o) => Held(o, w.c)
      BY <2>1 DEF SafetyInv, PassInv
    <3>2. w.c \in Cred
      BY <2>1, PassKinds DEF CopyPass
    <3>3. /\ w'.op = "copy" /\ w'.c = w.c /\ w'.ref = w.ref /\ w'.todo = w.todo /\ w'.ver = w.ver
          /\ w'.fresh => w.fresh /\ w.c # c
      BY <1>4, <2>1 DEF SamePass
    <3>4. /\ cred'[w.c].finalizer /\ cred'[w.c].phase # "gone"
          /\ w'.fresh => cred'[w.c].phase = "live"
      BY <1>2, <1>3, <3>1, <3>2, <3>3
    <3>5. \A o \in Needs(w.ref) \ w'.todo : (Exists(o) => Held(o, w.c))'
      BY <1>1, <3>1, <3>3 DEF Held, Exists
    <3> QED BY <3>1, <3>3, <3>4, <3>5 DEF PassInv, Needs
  <2>2. ASSUME w.op = "release" PROVE PassInv'
    <3>1. /\ cred[w.c].phase = "deleting"
          /\ \A o \in w.ids \cup w.refs : Exists(o) => copy[o].managed
          /\ w.c \notin torn => \A s \in Secret : Has(s, w.c) => s \in w.refs
          /\ ~w.failed => \A i \in Identity : Has(i, w.c) => i \in w.ids
      BY <2>2 DEF SafetyInv, PassInv
    <3>2. w.c \in Cred /\ w.c # c
      BY <1>1, <2>2, <3>1, PassKinds DEF ReleasePass
    <3>3. w'.op = "release" /\ w'.c = w.c /\ w'.ids = w.ids /\ w'.refs = w.refs /\ w'.failed = w.failed
      BY <1>4, <2>2 DEF SamePass
    <3>4. cred'[w.c].phase = "deleting"
      BY <1>2, <3>1, <3>2
    <3> QED BY <1>1, <3>1, <3>3, <3>4 DEF PassInv, Has, Exists
  <2>3. ASSUME w.op \notin {"copy", "release"} PROVE PassInv'
    BY <1>4, <2>3 DEF PassInv, SamePass
  <2> QED BY <2>1, <2>2, <2>3
<1>6. UseInv'
  <2>1. \A d \in Cred : using'[d] = IF d = c THEN {} ELSE using[d]
    BY <1>1 DEF TypeOK
  <2> QED BY <1>2, <1>h, <2>1 DEF SafetyInv, UseInv
<1>7. LabelInv'
  <2>1. \A d : Stranded(d)' <=> Stranded(d)
    BY <1>1 DEF Stranded, Labelled, Exists
  <2> QED BY <1>1, <1>2, <1>4, <1>h, <2>1 DEF SafetyInv, LabelInv, SamePass
<1>8. NothingLeftBehind'
  <2>1. ~cred[c].finalizer => \A o \in Object : ~Has(o, c)
    BY DEF SafetyInv, LabelInv
  <2>2. \A d \in Cred \ unreleased' : cred'[d].phase = "gone" =>
           /\ \A i \in Identity : ~Has(i, d)
           /\ d \notin torn' => \A s \in Secret : ~Has(s, d)
    BY <1>1, <1>2, <1>3, <2>1, LeftBehindBy DEF SafetyInv, Object
  <2>3. \A d \in Cred \ unreleased' : cred'[d].phase = "gone" =>
           /\ \A i \in Identity : ~Has(i, d)'
           /\ d \notin torn' => \A s \in Secret : ~Has(s, d)'
    BY <1>h, <2>2
  <2> QED BY <2>3 DEF NothingLeftBehind, Labelled, Has
<1> QED BY <1>5, <1>6, <1>7, <1>8 DEF SafetyInv

\* An object removed by someone else is no longer used, and strands what it alone led to.
LEMMA UserRemovesCopySafe ==
    ASSUME TypeOK, SafetyInv, NEW o \in Object, UserRemovesCopy(o) PROVE SafetyInv'
<1>1. /\ copy' = [copy EXCEPT ![o] = Absent] /\ using' = [c \in Cred |-> using[c] \ {o}]
      /\ torn' = torn \cup {c \in Cred : Stranded(c)'} /\ UNCHANGED <<cred, w, unreleased>>
  BY DEF UserRemovesCopy
<1>2. /\ \A x \in Object : x # o => copy'[x] = copy[x]
      /\ copy'[o].ver = 0
  BY <1>1 DEF TypeOK, Absent
<1>h. \A x \in Object : /\ Exists(x)' => Exists(x) /\ copy'[x] = copy[x]
                        /\ \A d : /\ Has(x, d)' => Has(x, d)
                                  /\ x # o => (Held(x, d) => Held(x, d)')
  BY <1>2 DEF Has, Held, Exists
<1>3. PassInv'
  <2>1. ASSUME w.op = "copy" PROVE PassInv'
    <3>1. /\ cred[w.c].finalizer /\ cred[w.c].phase # "gone"
          /\ w.fresh => cred[w.c].phase = "live"
          /\ \A x \in w.todo : w.ver[x] # 0
          /\ \A x \in Needs(w.ref) \ w.todo : Exists(x) => Held(x, w.c)
      BY <2>1 DEF SafetyInv, PassInv
    <3>2. Needs(w.ref) \subseteq Object
      BY <2>1, PassKinds, NeedsType DEF CopyPass
    <3>3. \A x \in Needs(w.ref) \ w.todo : (Exists(x) => Held(x, w.c))'
      BY <1>1, <1>h, <3>1, <3>2 DEF Held
    <3> QED BY <1>1, <2>1, <3>1, <3>3 DEF PassInv, Needs
  <2>2. ASSUME w.op = "release" PROVE PassInv'
    <3>1. /\ cred[w.c].phase = "deleting"
          /\ \A x \in w.ids \cup w.refs : Exists(x) => copy[x].managed
          /\ w.c \notin torn => \A s \in Secret : Has(s, w.c) => s \in w.refs
          /\ ~w.failed => \A i \in Identity : Has(i, w.c) => i \in w.ids
      BY <2>2 DEF SafetyInv, PassInv
    <3>2. w.ids \cup w.refs \subseteq Object
      BY <2>2, PassKinds DEF ReleasePass, Object
    <3>3. PICK c \in Cred : c = w.c
      BY <2>2, PassKinds DEF ReleasePass
    <3>4. /\ \A x \in w.ids \cup w.refs : Exists(x)' => copy'[x].managed
          /\ c \notin torn' => \A s \in Secret : Has(s, c)' => s \in w.refs
          /\ ~w.failed => \A i \in Identity : Has(i, c)' => i \in w.ids
      BY <1>1, <1>h, <3>1, <3>2, <3>3 DEF Object
    <3> QED BY <1>1, <2>2, <3>1, <3>3, <3>4 DEF PassInv, Has, Exists
  <2>3. ASSUME w.op \notin {"copy", "release"} PROVE PassInv'
    BY <1>1, <2>3 DEF PassInv
  <2> QED BY <2>1, <2>2, <2>3
<1>4. UseInv'
  <2>1. \A c \in Cred : using'[c] = using[c] \ {o} /\ using[c] \subseteq Object
    BY <1>1 DEF TypeOK
  <2> QED BY <1>1, <1>h, <2>1 DEF SafetyInv, UseInv
<1>5. LabelInv'
  <2>1. \A c \in Cred : ~cred'[c].finalizer => \A x \in Object : ~Has(x, c)'
    BY <1>1, <1>h DEF SafetyInv, LabelInv
  <2>2. \A c \in Cred : c \notin torn' => ~Stranded(c)'
    BY <1>1
  <2> QED BY <2>1, <2>2 DEF LabelInv
<1>6. NothingLeftBehind'
  <2>1. \A c \in Cred \ unreleased' : cred'[c].phase = "gone" =>
           /\ \A i \in Identity : ~Has(i, c)'
           /\ c \notin torn' => \A s \in Secret : ~Has(s, c)'
    BY <1>1, <1>h, LeftBehindBy DEF SafetyInv, Object
  <2> QED BY <2>1 DEF NothingLeftBehind, Labelled, Has
<1> QED BY <1>3, <1>4, <1>5, <1>6 DEF SafetyInv

LEMMA SafetyInductive == TypeOK /\ SafetyInv /\ [Next]_vars => SafetyInv'
<1> SUFFICES ASSUME TypeOK, SafetyInv, [Next]_vars PROVE SafetyInv'
  OBVIOUS
<1>e. ASSUME NEW c \in Cred, NEW ready \in BOOLEAN, NEW again \in BOOLEAN, w = Idle,
             Ended(c, ready, again)
      PROVE  SafetyInv'
  <2>1. /\ w' = Idle
        /\ \A d \in Cred : cred'[d].phase = cred[d].phase /\ cred'[d].finalizer = cred[d].finalizer
    BY <1>e DEF Ended, StatusWritten, TypeOK
  <2>2. UNCHANGED <<copy, using, torn, unreleased>> /\ w.op # "copy"
    BY <1>e DEF Ended, hist, Idle
  <2> QED BY <2>1, <2>2, Steady
<1>r. \A c \in Cred : cred[c].ready \in BOOLEAN
  BY DEF TypeOK
<1>s. ASSUME NEW c \in Cred PROVE c \in StrandedOf(c) \/ ~Stranded(c)
  BY DEF StrandedOf
<1>1. ASSUME NEW c \in Cred, AddFinalizer(c) PROVE SafetyInv'
  <2>1. \A d \in Cred : /\ cred'[d].phase = cred[d].phase
                        /\ cred[d].finalizer => cred'[d].finalizer
    BY <1>1 DEF AddFinalizer, TypeOK
  <2>2. UNCHANGED <<copy, using, torn, unreleased, w>>
    BY <1>1 DEF AddFinalizer, hist
  <2>3. SamePass
    BY <2>2 DEF SamePass
  <2> QED BY <2>1, <2>2, <2>3, Steady
<1>2. ASSUME NEW c \in Cred, NoRegion(c) PROVE SafetyInv'
  BY <1>2, <1>e, <1>r DEF NoRegion
<1>3. ASSUME NEW c \in Cred, Collect(c) PROVE SafetyInv'
  <2>1. CASE Ended(c, cred[c].ready, TRUE)
    BY <1>3, <1>e, <1>r, <2>1 DEF Collect
  <2>2. CASE w'.op = "copy"
    BY <1>3, <2>2, CollectSafe
  <2>3. CASE \E o \in Needs(cred[c].ref) : src[o] = 0
    BY <1>3, <2>1, <2>3 DEF Collect
  <2>4. CASE ~\E o \in Needs(cred[c].ref) : src[o] = 0
    <3>1. w' = [op |-> "copy", c |-> c, ref |-> cred[c].ref, todo |-> Needs(cred[c].ref),
                ver |-> [o \in Object |-> IF o \in Needs(cred[c].ref) THEN src[o] ELSE 0], fresh |-> TRUE]
      BY <1>3, <2>4, Zenon DEF Collect
    <3> QED BY <2>2, <3>1
  <2> QED BY <2>3, <2>4
<1>4. ASSUME CopyFails PROVE SafetyInv'
  <2>1. w.c \in Cred /\ w.fresh \in BOOLEAN /\ queue \in SUBSET Cred
    BY <1>4, PassKinds DEF CopyFails, CopyPass, TypeOK
  <2>2. StatusWritten(w.c, w.fresh, cred[w.c].ready, TRUE, queue)
    BY <1>4 DEF CopyFails
  <2>3. /\ w' = Idle
        /\ \A d \in Cred : cred'[d].phase = cred[d].phase /\ cred'[d].finalizer = cred[d].finalizer
    BY <1>r, <2>1, <2>2, StatusType
  <2>4. UNCHANGED <<copy, using, unreleased>> /\ torn' = torn \cup StrandedOf(w.c)
    BY <1>4 DEF CopyFails
  <2> QED BY <1>s, <2>1, <2>3, <2>4, Steady
<1>5. ASSUME NEW c \in Cred, Forget(c) \/ Sync(c) PROVE SafetyInv'
  <2>1. UNCHANGED <<cred, copy, using, torn, unreleased, w>>
    BY <1>5 DEF Forget, Sync, hist
  <2>2. SamePass
    BY <2>1 DEF SamePass
  <2> QED BY <2>1, <2>2, Steady
<1>6. ASSUME Restart PROVE SafetyInv'
  <2>1. /\ UNCHANGED <<cred, copy, using, unreleased>> /\ w' = Idle
        /\ torn' = IF w.op = "copy" THEN torn \cup StrandedOf(w.c) ELSE torn
    BY <1>6 DEF Restart
  <2>2. w.op = "copy" => w.c \in Cred
    BY PassKinds DEF CopyPass
  <2>3. w.op = "copy" => w.c \in torn' \/ ~Stranded(w.c)
    BY <1>s, <2>1, <2>2
  <2>4. torn \subseteq torn'
    BY <2>1
  <2> QED BY <2>1, <2>3, <2>4, Steady
<1>7. ASSUME NEW c \in Cred, UserEdits(c) PROVE SafetyInv'
  <2>1. \A d \in Cred : cred'[d].phase = cred[d].phase /\ cred'[d].finalizer = cred[d].finalizer
    BY <1>7 DEF UserEdits, TypeOK
  <2>2. UNCHANGED <<copy, using, torn, unreleased>> /\ w' = Touched(c)
    BY <1>7 DEF UserEdits, hist
  <2>3. SamePass
    BY <2>2, TouchedFields
  <2> QED BY <2>1, <2>2, <2>3, Steady
<1>8. ASSUME NEW o \in Object, UserWritesSource(o) PROVE SafetyInv'
  <2>1. UNCHANGED <<cred, copy, using, torn, unreleased, w>>
    BY <1>8 DEF UserWritesSource, hist
  <2>2. SamePass
    BY <2>1 DEF SamePass
  <2> QED BY <2>1, <2>2, Steady
<1>9. ASSUME NEW s \in RegionState, RegionMoves(s) PROVE SafetyInv'
  <2>1. UNCHANGED <<cred, copy, using, torn, unreleased, w>>
    BY <1>9 DEF RegionMoves, hist
  <2>2. SamePass
    BY <2>1 DEF SamePass
  <2> QED BY <2>1, <2>2, Steady
<1>10. CASE UNCHANGED vars
  <2>1. UNCHANGED <<cred, copy, using, torn, unreleased, w>>
    BY <1>10 DEF vars
  <2>2. SamePass
    BY <2>1 DEF SamePass
  <2> QED BY <2>1, <2>2, Steady
<1> QED
  BY <1>1, <1>2, <1>3, <1>4, <1>5, <1>6, <1>7, <1>8, <1>9, <1>10, CopyOneSafe, CheckIdentitySafe,
     LetGoSafe, BeginReleaseSafe, ReleaseOneSafe, ReleaseFailsSafe, EndReleaseSafe,
     UserDeletesSafe, UserRemovesCopySafe
  DEF Next, Pass, Work

LEMMA SafetyInit == Init => SafetyInv
<1> SUFFICES ASSUME Init PROVE SafetyInv
  OBVIOUS
<1>1. \A o \in Object : ~copy[o].managed
  <2>1. PICK pre \in SUBSET Preset :
           copy = [o \in Object |-> IF o \in pre THEN [Absent EXCEPT !.ver = 1] ELSE Absent]
    BY DEF Init
  <2>2. ~Absent.managed /\ ~[Absent EXCEPT !.ver = 1].managed
    BY AbsentType DEF Absent
  <2> QED BY <2>1, <2>2
<1>2. \A o \in Object : \A c : ~Has(o, c)
  BY <1>1 DEF Has
<1>3. w.op = "idle" /\ \A c \in Cred : cred[c].phase = "live" /\ using[c] = {}
  BY DEF Init, Idle
<1>4. PassInv
  BY <1>3 DEF PassInv
<1>5. UseInv
  BY <1>3 DEF UseInv
<1>6. LabelInv
  BY <1>2, StrandedBy DEF LabelInv, Object
<1>7. NothingLeftBehind
  BY <1>3 DEF NothingLeftBehind
<1> QED BY <1>4, <1>5, <1>6, <1>7 DEF SafetyInv

LEMMA SafetyAlways == Spec => []SafetyInv
<1>1. Init => TypeOK /\ SafetyInv
  BY TypeInit, SafetyInit
<1>2. TypeOK /\ SafetyInv /\ [Next]_vars => TypeOK' /\ SafetyInv'
  BY TypeInductive, SafetyInductive
<1> QED BY <1>1, <1>2, PTL DEF Spec

\* releaseClusterIdentity: what a Credential uses stays in the Region while other Credentials that
\* share it come and go, whatever fails.
THEOREM CredentialsInUseStays == Spec => []InUseStays
<1>1. SafetyInv => InUseStays
  BY DEF SafetyInv, UseInv, InUseStays, Held
<1> QED BY <1>1, SafetyAlways, PTL

\* ReleaseClusterIdentities: a Credential that is gone left no identity with its label, nor a Secret
\* that its release could have found.
THEOREM CredentialsNothingLeftBehind == Spec => []NothingLeftBehind
<1>1. SafetyInv => NothingLeftBehind
  BY DEF SafetyInv
<1> QED BY <1>1, SafetyAlways, PTL
=============================================================================
