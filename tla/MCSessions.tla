----------------------------- MODULE MCSessions -----------------------------
(* Sessions.tla on small instances. *)
EXTENDS Sessions, TLC
=============================================================================
