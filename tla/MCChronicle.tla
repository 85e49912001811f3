---------------------------- MODULE MCChronicle ----------------------------
(* Chronicle on a small instance; MCChronicle.cfg gives the constants. *)
EXTENDS Chronicle
=============================================================================
