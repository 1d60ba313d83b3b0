----------------------------- MODULE MCDatabase -----------------------------
(* A command-line process that creates the table and imports and exports    *)
(* snapshots, one of them with an item that cannot be imported, and a       *)
(* program that inserts, deletes and reads one of two characteristics.      *)
EXTENDS Database, TLC

CONSTANTS p1, p2, a, b, copy, bad

MCNameOf == a :> "n" @@ b :> "m"

MCOpsOf == p1 :> {Initialize} \cup Reads @@ p2 :> {Op("insert", a), Op("delete", "n")}

MCSnapshot == copy :> <<a, b>> @@ bad :> <<b, Mistyped>>
=============================================================================
