------------------------- MODULE MCAccessManagement -------------------------
(* Instances of AccessManagement for TLC: one Kind of KCM's own and one    *)
(* custom Kind.                                                            *)
EXTENDS AccessManagement

CONSTANTS template, custom, x, n1, n2, system

Everywhere(k) == [kind |-> k, all |-> TRUE, names |-> {}, ns |-> {}]
Listed(k)     == [kind |-> k, all |-> FALSE, names |-> {x}, ns |-> {n1, system}]

(* Nothing at all, one Kind everywhere, both of them where listed.         *)
Rules == {{}, {Everywhere(template)}, {Listed(template), Listed(custom)}}
=============================================================================
