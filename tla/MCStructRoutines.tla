--------------------------- MODULE MCStructRoutines ---------------------------
(* A struct with the field total, whose initializer is not what a read of  *)
(* an absent member inserts.  add takes an argument of another name, which *)
(* is also a member no struct declares, replace one of the field's name;   *)
(* read has an output that its body must set, and one with a default that  *)
(* bears the name of the field.                                            *)
EXTENDS StructRoutines, TLC

CONSTANTS total, delta, add, replace, read

MCDefaults == total :> 1 @@ delta :> 0

MCParamsOf == add :> {delta} @@ replace :> {total} @@ read :> {}

MCOutputsOf == add :> {} @@ replace :> {} @@ read :> {delta, total}

MCPresetOf == add :> {} @@ replace :> {} @@ read :> {total}

ObjectSymmetry == Permutations(Objects)
=============================================================================
