---------------------------- MODULE MCRootStore ----------------------------
(* RootStore on small instances; each cfg chooses which faults can happen. *)
EXTENDS RootStore
=============================================================================
