------------------------------- MODULE MCCase -------------------------------
(* A small instance of Case: two claims, of one job twice or of two jobs.  *)
EXTENDS Case
=============================================================================
