--------------------------- MODULE MCCredentials ---------------------------
(***************************************************************************)
(* Two Credentials on one identity or on two that share a Secret; one of   *)
(* the identities may be in the Region already.                            *)
(***************************************************************************)
EXTENDS Credentials

MCRefsOf == [i \in Identity |-> Secret]

\* The first Credential starts with i1: exchanging the Credentials adds nothing.
MCStartRefs == {ref \in [Cred -> Identity] : ref["c1"] = "i1"}
=============================================================================
