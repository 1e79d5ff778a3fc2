------------------------------ MODULE MCGenerateMesh ------------------------------
(* Networks for TLC. *)
EXTENDS GenerateMesh, TLC

ZoneSymmetry == Permutations(Zones \ {zone_1})

===================================================================================
