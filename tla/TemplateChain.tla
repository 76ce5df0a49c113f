--------------------------- MODULE TemplateChain ---------------------------
(***************************************************************************)
(* The upgrade routes of a ServiceTemplateChain and the way a service      *)
(* walks them, one hop per rollout.                                        *)
(*                                                                         *)
(* A chain is a function from the names of its supported templates to the  *)
(* set of templates listed under availableUpgrades.  The order of a        *)
(* list only decides between routes of equal length, and so does the order *)
(* in which Go ranges over the map of routes: both are a choice here.      *)
(* A hop is identified by its template's name; the version next to the     *)
(* name is a copy of it or the version of that template.                   *)
(***************************************************************************)
EXTENDS Naturals, Sequences, FiniteSets, SequencesExt

CONSTANTS
    Templates,  \* names of ServiceTemplates
    Chains      \* the chains a run explores

VARIABLES
    supported,  \* spec.supportedTemplates of the service's chain
    start,      \* the template the service ran when the owner changed it
    current,    \* the template stored in the ServiceSet, and deployed
    desired,    \* the template the owner asks for
    taken       \* number of hops made since start

walkVars == <<supported, start, current, desired, taken>>

SupportedTemplates == UNION {[S -> SUBSET Templates] : S \in SUBSET Templates}

ASSUME ChainsAssumption == IsFiniteSet(Templates) /\ Chains \subseteq SupportedTemplates

-----------------------------------------------------------------------------
(* The chain's own operations *)

IsValid(ch) == UNION {ch[t] : t \in DOMAIN ch} \subseteq DOMAIN ch

(* The closure findPaths: every route that extends path from template t.   *)
FindPaths(ch) ==
    LET find[call \in Templates \X Seq(Templates) \X SUBSET Templates] ==
          LET t       == call[1]
              path    == call[2]
              visited == call[3]
          IN  IF t \in visited \/ t \notin DOMAIN ch
              THEN {}
              ELSE UNION { {Append(path, u)}
                             \union find[<<u, Append(path, u), visited \union {t}>>]
                           : u \in ch[t] \ ToSet(path) }
    IN  find

(* Mutant: the start counts as visited too, so no route leads back to it.  *)
FindPathsAwayFromStart(ch, t) ==
    {p \in FindPaths(ch)[<<t, <<>>, {}>>] : t \notin ToSet(p)}

FindAllUpgradePaths(ch, t) == FindPaths(ch)[<<t, <<>>, {}>>]

(* Mutant: one shortest route for every destination.                       *)
ShortestUpgradePaths(ch, t) ==
    LET all   == FindAllUpgradePaths(ch, t)
        Shortest(p) == \A q \in all : Last(q) = Last(p) => Len(p) <= Len(q)
    IN  { {CHOOSE p \in all : Last(p) = d /\ Shortest(p) : d \in {Last(p) : p \in all}} }

(* The possible results of UpgradePaths: one longest route for every       *)
(* destination.                                                            *)
UpgradePaths(ch, t) ==
    LET all   == FindAllUpgradePaths(ch, t)
        To(d) == {p \in all : Last(p) = d}
        dests == {Last(p) : p \in all}
    IN  { {pick[d] : d \in dests} :
          pick \in { f \in [dests -> all] :
                       \A d \in dests : /\ f[d] \in To(d)
                                        /\ \A q \in To(d) : Len(q) <= Len(f[d]) } }

-----------------------------------------------------------------------------
(* What the rollout of a service makes of the routes *)

Position(route, t) == CHOOSE i \in DOMAIN route :
                        /\ route[i] = t
                        /\ \A j \in 1 .. (i - 1) : route[j] # t

(* The hops nextUpgradeStep may return; none when no route reaches des.    *)
NextUpgradeStep(routes, cur, des) ==
    LET useful    == {r \in routes : des \in ToSet(r)}
        Target(r) == Position(r, des)
        Behind(r) == SubSeq(r, 1, Target(r) - 1)
        Next(r)   == IF cur \in ToSet(Behind(r))
                     THEN Position(Behind(r), cur) + 1
                     ELSE 1
    IN  { r[Next(r)] :
          r \in {s \in useful : \A q \in useful : Target(q) <= Target(s)} }

(* Mutant: only the first hop of a route is compared.                      *)
DesiredIsNextHop(routes, des) ==
    \E r \in routes : r[1] = des

(* Whether some route names the desired template at all.                   *)
DesiredTemplateInUpgradePaths(routes, des) ==
    \E r \in routes : des \in ToSet(r)

-----------------------------------------------------------------------------
(* The walk: each rollout that lands lets the owner's next reconcile take  *)
(* the next hop.                                                           *)

(* A route without a repeated template is no longer than this: more hops   *)
(* are counted as this many.                                               *)
MaxTaken == Cardinality(Templates)

WalkInit ==
    /\ supported \in Chains
    /\ current \in DOMAIN supported
    /\ desired \in Templates
    /\ start = current
    /\ taken = 0

TakeHop ==
    /\ current # desired
    /\ current \in DOMAIN supported
    /\ \E routes \in UpgradePaths(supported, current) :
         /\ DesiredTemplateInUpgradePaths(routes, desired)
         /\ current' \in NextUpgradeStep(routes, current, desired)
    /\ taken' = IF taken < MaxTaken THEN taken + 1 ELSE taken
    /\ UNCHANGED <<supported, start, desired>>

WalkNext == TakeHop

WalkSpec == WalkInit /\ [][WalkNext]_walkVars /\ WF_walkVars(TakeHop)

-----------------------------------------------------------------------------
(* Properties *)

(* The variables stay in their types.                                      *)
WalkTypeOK ==
    /\ supported \in Chains
    /\ {start, current, desired} \subseteq Templates
    /\ taken \in 0 .. MaxTaken

(* Routes by definition: no template twice, every hop listed under the one *)
(* before it, and only the last one may lead back to the start.            *)
Route(ch, t, p) ==
    /\ IsInjective(p)
    /\ \A i \in DOMAIN p :
         LET from == IF i = 1 THEN t ELSE p[i - 1]
         IN  /\ from \in DOMAIN ch /\ p[i] \in ch[from]
             /\ p[i] = t => i = Len(p)

Routes(ch, t) == {p \in BoundedSeq(Templates, Cardinality(Templates)) \ {<<>>} :
                    Route(ch, t, p)}

(* findAllUpgradePaths visits every route of the chain exactly, whatever   *)
(* cycles the chain has and whatever templates it forgot to list.          *)
PathsAreTheRoutes ==
    \A t \in DOMAIN supported : FindAllUpgradePaths(supported, t) = Routes(supported, t)

(* A chain without cycles: the templates can be ranked along it.           *)
Acyclic(ch) ==
    \E rank \in [Templates -> 1 .. Cardinality(Templates)] :
       \A t \in DOMAIN ch : \A u \in ch[t] : rank[t] < rank[u]

(* The longest route wins at every hop, so a service that arrived made no  *)
(* fewer hops than a longest route has, cycles or not ("no hop is shortcut *)
(* past").                                                                 *)
NoHopIsSkipped ==
    (current = desired /\ start # desired) =>
        \A p \in Routes(supported, start) : Last(p) = desired => Len(p) <= taken

(* Hop by hop, the walk of nextUpgradeStep stays within the chain's        *)
(* templates and leaves no hop out.                                        *)
WalkInv == WalkTypeOK /\ NoHopIsSkipped

(* nextUpgradeStep returns "the next hop towards desiredTemplate": taking  *)
(* one after another gets there whenever a chain without cycles has a      *)
(* route.                                                                  *)
WalkArrives ==
    (Acyclic(supported) /\ \E p \in Routes(supported, start) : Last(p) = desired)
        ~> (current = desired)
=============================================================================
