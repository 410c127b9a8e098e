----------------------------- MODULE PublishTailMC -----------------------------
(* The tail of a run: two generations, two attempts to publish, a foreign tree,  *)
(* and a crash, a pause, a rerun or a retry; the constants are in the .cfg files. *)
EXTENDS PublishTail
================================================================================
