--------------------------- MODULE OrderedRollout ---------------------------
(***************************************************************************)
(* What spec.dependsOn of a MultiClusterService promises, without a word   *)
(* on how it is kept: an item is placed on a target, or moved there to     *)
(* another version, only when each item it depends on that is aimed at the *)
(* target has landed there at the version that was wanted of it after this *)
(* one's own wish was read.                                                *)
(***************************************************************************)
EXTENDS Integers

CONSTANTS Item, Target, Wish
(* A wish holds the version wanted, the items depended on, and what says   *)
(* where it is aimed at; Aimed(w, k, t) reads the latter for a target of   *)
(* which k is known.                                                       *)
CONSTANT Aimed(_, _, _)
CONSTANT NoWish

VARIABLES
    wish,    \* what the user asks of each item, or NoWish
    know,    \* what the user says of each target
    goal,    \* the wish an item is being brought to, or NoWish
    plan,    \* the wishes of the items it depends on, read after goal
    view,    \* what was known of the targets when they were looked at
    out,     \* the version of an item placed on a target, 0 for none
    landed   \* every <<item, target, version>> that was ever complete

vars == <<wish, know, goal, plan, view, out, landed>>

NoPlan == [i \in Item |-> NoWish]

Init ==
    /\ goal = [i \in Item |-> NoWish]
    /\ plan = [i \in Item |-> NoPlan]
    /\ out = [x \in Item \X Target |-> 0]
    /\ landed = {}

(* The users change their minds, and what they say of the targets.         *)
Change ==
    UNCHANGED <<goal, plan, view, out, landed>>

Read(i) ==
    /\ wish[i] # NoWish
    /\ goal' = [goal EXCEPT ![i] = wish[i]]
    /\ plan' = [plan EXCEPT ![i] = NoPlan]
    /\ UNCHANGED <<wish, know, view, out, landed>>

Plan(i) ==
    /\ goal[i] # NoWish
    /\ plan' = [plan EXCEPT ![i] = [j \in Item |->
                   IF j \in goal[i].deps THEN wish[j] ELSE NoWish]]
    /\ UNCHANGED <<wish, know, goal, view, out, landed>>

Look(i) ==
    /\ view' = [view EXCEPT ![i] = know]
    /\ UNCHANGED <<wish, know, goal, plan, out, landed>>

Place(i, t) ==
    /\ goal[i] # NoWish
    /\ \A j \in goal[i].deps :
          /\ plan[i][j] # NoWish
          /\ Aimed(plan[i][j], view[i][t], t) => <<j, t, plan[i][j].version>> \in landed
    /\ out' = [out EXCEPT ![<<i, t>>] = goal[i].version]
    /\ UNCHANGED <<wish, know, goal, plan, view, landed>>

(* The attempt is over, perhaps because the item itself is gone.           *)
Forget(i) ==
    /\ goal' = [goal EXCEPT ![i] = NoWish]
    /\ plan' = [plan EXCEPT ![i] = NoPlan]
    /\ \A j \in Item \ {i} : view'[j] = view[j]
    /\ UNCHANGED <<know, out, landed>>

Land(i, t) ==
    /\ out[<<i, t>>] # 0
    /\ landed' = landed \union {<<i, t, out[<<i, t>>]>>}
    /\ UNCHANGED <<wish, know, goal, plan, view, out>>

Withdraw(i, t) ==
    /\ out' = [out EXCEPT ![<<i, t>>] = 0]
    /\ UNCHANGED <<wish, know, goal, plan, view, landed>>

Next ==
    \/ Change
    \/ \E i \in Item : Read(i) \/ Plan(i) \/ Look(i) \/ Forget(i)
    \/ \E i \in Item, t \in Target : Place(i, t) \/ Land(i, t) \/ Withdraw(i, t)

Spec == Init /\ [][Next]_vars
=============================================================================
