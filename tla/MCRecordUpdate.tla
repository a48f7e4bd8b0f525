----------------------------- MODULE MCRecordUpdate -----------------------------
(* RecordUpdate for TLC. *)
EXTENDS RecordUpdate

Alike == Permutations(Ids) \union Permutations(Values) \union Permutations(Calls)
================================================================================
