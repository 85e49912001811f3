----------------------------- MODULE MCDatabase -----------------------------
(* Database on small instances; each cfg chooses which faults can happen. *)
EXTENDS Database
=============================================================================
