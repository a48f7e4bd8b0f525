----------------------------- MODULE MCGroupMembers -----------------------------
(* GroupMembers for TLC. *)
EXTENDS GroupMembers, TLC

Alike == Permutations(Devices) \union Permutations(Places)
================================================================================
