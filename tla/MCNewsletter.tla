----------------------------- MODULE MCNewsletter -----------------------------
(* Newsletter on a small instance: every constant is given in the cfg. *)
EXTENDS Newsletter
=============================================================================
