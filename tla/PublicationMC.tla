----------------------------- MODULE PublicationMC -----------------------------
(* Two publications to one path, and the trees of others: crashes and restarts,  *)
(* failing calls and foreign publications are chosen by the .cfg files.          *)
EXTENDS PublicationApply, TLC

CONSTANTS e1, e2, v1, v2

ASSUME TreesAssumption /\ BoundsAssumption

(* Effects are alike, and so are the trees of others. *)
Alike == Permutations({e1, e2}) \cup Permutations({v1, v2})
================================================================================
