---------------------------- MODULE SyncApplyMC -----------------------------
(***************************************************************************)
(* Instances of SyncApply for TLC. The nested names are a folder or file   *)
(* "d", a file "d/f" inside it, and a file "g" beside it, in name order;   *)
(* the flat ones are two files.                                            *)
(***************************************************************************)
EXTENDS SyncApply

NestedPaths == {"d", "d/f", "g"}
NestedAbove == [p \in NestedPaths |-> IF p = "d/f" THEN {"d"} ELSE {}]
NestedRank  == [p \in NestedPaths |-> CASE p = "d" -> 1 [] p = "d/f" -> 2 [] p = "g" -> 3]

FlatPaths == {"f", "g"}
FlatAbove == [p \in FlatPaths |-> {}]
FlatRank  == [p \in FlatPaths |-> IF p = "f" THEN 1 ELSE 2]
=============================================================================
