---------------------------- MODULE MCServiceSet ----------------------------
(* Instances of ServiceSet for TLC: c depends on b, and b on a.            *)
EXTENDS ServiceSet

CONSTANTS a, b, c

(* The chain that upgrades every version to the next one.                  *)
ChainHop == [cur \in Versions |-> [des \in Versions |->
               IF cur < des THEN {cur + 1} ELSE {}]]

(* The chain that supports every version and upgrades none.                *)
DeadEnd == [cur \in Versions |-> [des \in Versions |-> {}]]

(* Every version has a chart of its own.                                   *)
OwnChart == [v \in Versions |-> v]

DependsOn == [x \in {a, b, c} |-> CASE x = a -> {} [] x = b -> {a} [] x = c -> {b}]

Svc(x, ver, vals) == [on |-> TRUE, ver |-> ver, vals |-> vals, deps |-> DependsOn[x],
                      chain |-> TRUE, disable |-> FALSE]
Off == [on |-> FALSE, ver |-> 1, vals |-> 1, deps |-> {}, chain |-> FALSE,
        disable |-> FALSE]

AllAt(v) == [x \in Services |-> Svc(x, v, 1)]

(* An upgrade over two hops that leaves b where it is.                     *)
Upgraded == [x \in Services |-> Svc(x, IF x = b THEN 1 ELSE 3, 1)]
Upgrade  == {AllAt(1), Upgraded}

(* Everything starts at the first version.                                 *)
FirstInit   == Init /\ desired = AllAt(1)
UpgradeSpec == FirstInit /\ [][Next]_vars

(* One version up.                                                         *)
Bump == {AllAt(1), AllAt(2)}

(* New values, and then a new version.                                     *)
ValuesThenVersion == {AllAt(1), [AllAt(1) EXCEPT ![a].vals = 2], [AllAt(2) EXCEPT ![a].vals = 2]}

(* What a user may do to a and b: change values, upgrade both, drop the    *)
(* chain, upgrade and disable b, remove b, cut the dependency.             *)
Edits ==
    {AllAt(1), AllAt(2),
     [AllAt(1) EXCEPT ![a].vals = 2],
     [AllAt(2) EXCEPT ![a].chain = FALSE, ![b].disable = TRUE],
     [AllAt(2) EXCEPT ![b] = Off],
     [AllAt(2) EXCEPT ![b].deps = {}]}

EditsSpec     == FirstInit /\ [][Next]_vars
FairEditsSpec == EditsSpec /\ Fairness
=============================================================================
