---------------------------- MODULE MCManagement ----------------------------
(* One provider, sveltos.                                                  *)
EXTENDS Management
=============================================================================
