----------------------------- MODULE MCAlertRota -----------------------------
(* AlertRota on small instances. *)
EXTENDS AlertRota
=============================================================================
