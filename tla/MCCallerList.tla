---------------------------- MODULE MCCallerList ---------------------------
(* CallerList on small instances: see the MCCallerList*.cfg files. *)
EXTENDS CallerList
=============================================================================
