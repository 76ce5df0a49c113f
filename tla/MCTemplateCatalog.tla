------------------------- MODULE MCTemplateCatalog -------------------------
(***************************************************************************)
(* Two chains share the template t1; one of them supports t2 as well.      *)
(***************************************************************************)
EXTENDS TemplateCatalog

MCSupports == [k \in Chain |-> IF k = "k1" THEN Template ELSE {"t1"}]
=============================================================================
