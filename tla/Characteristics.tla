-------------------------- MODULE Characteristics --------------------------
(* Rows of the table device_characteristics, and the statements on them.    *)
EXTENDS Naturals

CONSTANTS
    Procs,      \* processes, each with one connection object that one thread uses
    Chars,      \* device characteristics: what a row holds
    Names,      \* their names
    NameOf,     \* NameOf[c]: the name of c
    MaxRows     \* bound: rows ever inserted

ASSUME CharacteristicsAssumption ==
    /\ NameOf \in [Chars -> Names]
    /\ MaxRows \in Nat

\* The id is a SERIAL column: it tells equal characteristics apart.
Rows == [id : 1..MaxRows, char : Chars]

Op(kind, arg) == [kind |-> kind, arg |-> arg]

Inserts == {Op("insert", c) : c \in Chars}
Deletes == {Op("delete", n) : n \in Names} \cup {Op("clear", "any")}
Reads == {Op("read", "any")}
Initialize == Op("initialize", "any")
Ops == Inserts \cup Deletes \cup Reads \cup {Initialize}

NoOp == Op("none", "any")

\* The rows a DELETE statement finds among the given ones.
Found(op, rows) ==
    IF op.kind = "clear" THEN rows
    ELSE IF op.kind = "delete" THEN {r \in rows : NameOf[r.char] = op.arg}
    ELSE {}
=============================================================================
