-------------------------- MODULE MCTemplateChain --------------------------
(* Instances of TemplateChain for TLC.                                     *)
EXTENDS TemplateChain

(* Every chain of the first three templates, with its cycles and with      *)
(* upgrades to templates it does not list.                                 *)
SmallChains == UNION {[S -> SUBSET (1 .. 3)] : S \in SUBSET (1 .. 3)}

(* Every chain whose upgrades all go to a higher template.                 *)
UpwardChains == {ch \in [Templates -> SUBSET Templates] :
                   \A t \in Templates : \A u \in ch[t] : t < u}

SmallAndUpward == SmallChains \union UpwardChains
=============================================================================
