------------------------- MODULE CharacteristicTable -------------------------
(* What the operations on the table of device characteristics promise to    *)
(* the processes that share it.  Every call takes effect at once and        *)
(* altogether or not at all, and at most once.  A call that returns has     *)
(* taken effect; one that throws may have, when the connection is lost      *)
(* before the answer to its commit.  A deletion removes at least the        *)
(* matching rows that were there when it was called and nobody else         *)
(* removed: rows that others add meanwhile may stay.                        *)
EXTENDS Characteristics

VARIABLES
    table,      \* the committed rows
    pending,    \* pending[p]: the operation p calls, and the rows it owes to delete
    outcome     \* outcome[p]: how the last call of p ended

vars == <<table, pending, outcome>>

Idle == [op |-> NoOp, there |-> {}]

Init ==
    /\ table = {}
    /\ pending = [p \in Procs |-> Idle]
    /\ outcome = [p \in Procs |-> "ok"]

Begin(p) ==
    /\ pending[p] = Idle
    /\ \E op \in Ops : pending' = [pending EXCEPT ![p] = [op |-> op, there |-> Found(op, table)]]
    /\ outcome' = [outcome EXCEPT ![p] = "ok"]
    /\ UNCHANGED table

Effect(p) ==
    LET op == pending[p].op IN
    \/ /\ op \in Reads
       /\ UNCHANGED table
    \/ /\ op \in Inserts
       /\ \E r \in Rows \ table : r.char = op.arg /\ table' = table \cup {r}
    \/ /\ op \in Deletes
       /\ \E gone \in SUBSET Found(op, table) :
              /\ table \cap pending[p].there \subseteq gone
              /\ table' = table \ gone
    \/ /\ op = Initialize
       /\ table' = {}

Ends(p, how) ==
    /\ pending[p] # Idle
    /\ pending' = [pending EXCEPT ![p] = Idle]
    /\ outcome' = [outcome EXCEPT ![p] = how]

Return(p) == Ends(p, "ok") /\ Effect(p)

Throw(p) == Ends(p, "failed") /\ (Effect(p) \/ UNCHANGED table)

Next == \E p \in Procs : Begin(p) \/ Return(p) \/ Throw(p)

Spec == Init /\ [][Next]_vars
=============================================================================
