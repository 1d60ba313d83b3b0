------------------------------ MODULE Database ------------------------------
(* AdminDatabaseConnection and SnapshotManager: processes that share a      *)
(* PostgreSQL table, each through a connection of its own that it opens     *)
(* when first needed and opens again when it was lost.  Every operation is  *)
(* a transaction with one statement; an import is a sequence of them.       *)
(*                                                                          *)
(* Transactions are READ COMMITTED: a DELETE finds the rows that were       *)
(* committed when it started, waits for those another transaction is        *)
(* deleting, and skips the ones that are gone then.                         *)
EXTENDS Characteristics, FiniteSets, SequencesExt

CONSTANTS
    Files,      \* snapshot files
    Snapshot,   \* Snapshot[f]: the items f holds at first
    Targets,    \* bound: the files that exports write
    OpsOf,      \* bound: OpsOf[p]: the operations p calls
    Admins,     \* bound: the processes that import and export snapshots
    MaxLosses,  \* bound: connections the server drops
    Mistyped    \* an item that has the required keys and a value of another type

Items == Chars \cup {Mistyped}

ASSUME DatabaseAssumption ==
    /\ Mistyped \notin Chars
    /\ Snapshot \in [Files -> Seq(Items)]
    /\ Targets \subseteq Files
    /\ OpsOf \in [Procs -> SUBSET Ops]
    /\ Admins \subseteq Procs
    /\ MaxLosses \in Nat

VARIABLES
    table,      \* the committed rows
    schema,     \* whether the table exists
    nextId,     \* of the SERIAL column
    conn,       \* conn[p]: "closed", "open", or "stale": lost, and not known to be
    txn,        \* txn[p]: what the transaction of p has done on the server
    call,       \* call[p]: the operation p is inside
    outcome,    \* outcome[p]: how the last one ended
    job,        \* job[p]: the import or export p is inside
    file,       \* file[f]: whether f can be read, and the items in it
    losses      \* connections the server has dropped

server == <<table, schema, nextId>>
vars == <<server, conn, txn, call, outcome, job, file, losses>>

NoCall == [op |-> NoOp, there |-> {}, seen |-> {}, phase |-> "none"]

\* there: the rows a deletion owes to remove.
Calling(op) == [op |-> op, there |-> Found(op, table), seen |-> {}, phase |-> "called"]

Transaction(adds, dels, drops) ==
    [open |-> TRUE, adds |-> adds, dels |-> dels, drops |-> drops]

NoTransaction == [open |-> FALSE, adds |-> {}, dels |-> {}, drops |-> FALSE]

Job(what) ==
    [what |-> what, items |-> <<>>, next |-> 1, clear |-> FALSE, alone |-> TRUE,
     into |-> "none"]

NoJob == Job("none")

Working(p) == job[p] # NoJob

Free(p) == call[p] = NoCall /\ ~Working(p)

JobEnds(p) == job' = [job EXCEPT ![p] = NoJob]

Contents(readable, items) == [readable |-> readable, items |-> items]

Init ==
    /\ table = {} /\ schema = FALSE /\ nextId = 1
    /\ conn = [p \in Procs |-> "closed"]
    /\ txn = [p \in Procs |-> NoTransaction]
    /\ call = [p \in Procs |-> NoCall]
    /\ outcome = [p \in Procs |-> "ok"]
    /\ job = [p \in Procs |-> NoJob]
    /\ file = [f \in Files |-> Contents(TRUE, Snapshot[f])]
    /\ losses = 0

-----------------------------------------------------------------------------
(* One operation. *)

In(p, phase) == call[p].phase = phase

\* Within the bound.
RoomFor(op) ==
    op \in Inserts =>
        nextId + Cardinality({q \in Procs : In(q, "called") /\ call[q].op \in Inserts}) <= MaxRows

Calls(p, op) ==
    /\ RoomFor(op)
    /\ call' = [call EXCEPT ![p] = Calling(op)]
    /\ outcome' = [outcome EXCEPT ![p] = "ok"]

Call(p) ==
    /\ Free(p)
    /\ \E op \in OpsOf[p] : Calls(p, op)
    /\ UNCHANGED <<server, conn, txn, job, file, losses>>

\* Fault: an import goes on when one of its operations has failed.
ThrowsAlone(p, c) ==
    /\ conn' = [conn EXCEPT ![p] = c]
    /\ txn' = [txn EXCEPT ![p] = NoTransaction]
    /\ call' = [call EXCEPT ![p] = NoCall]
    /\ outcome' = [outcome EXCEPT ![p] = "failed"]
    /\ UNCHANGED job

\* The call throws, the transaction is rolled back, and with the call fails
\* what it is part of.
Throws(p, c) ==
    /\ conn' = [conn EXCEPT ![p] = c]
    /\ txn' = [txn EXCEPT ![p] = NoTransaction]
    /\ call' = [call EXCEPT ![p] = NoCall]
    /\ outcome' = [outcome EXCEPT ![p] = "failed"]
    /\ JobEnds(p)

\* ensure_connected(): a connection that is not known to be open is made anew.
EnsureConnected(p) == conn' = [conn EXCEPT ![p] = "open"]

ConnectFails(p) ==
    /\ In(p, "called") /\ conn[p] = "closed"
    /\ Throws(p, "closed")
    /\ UNCHANGED <<server, file, losses>>

\* Fault: the transaction outlives the call.
ReturnsInside(p) ==
    /\ call' = [call EXCEPT ![p] = NoCall]
    /\ outcome' = [outcome EXCEPT ![p] = "ok"]
    /\ UNCHANGED txn

\* The call returns.
Returns(p) ==
    /\ call' = [call EXCEPT ![p] = NoCall]
    /\ outcome' = [outcome EXCEPT ![p] = "ok"]
    /\ txn' = [txn EXCEPT ![p] = NoTransaction]

\* The first statement of a call reaches the server.
Reaches(p) == In(p, "called") /\ conn[p] # "stale" /\ EnsureConnected(p)

\* A transaction that recreates the table keeps all the others out of it.
TableIsFree(p) == \A q \in Procs \ {p} : ~txn[q].drops

SendInsert(p) ==
    /\ Reaches(p) /\ schema /\ TableIsFree(p)
    /\ call[p].op \in Inserts /\ nextId <= MaxRows
    /\ txn' = [txn EXCEPT ![p] =
                 Transaction({[id |-> nextId, char |-> call[p].op.arg]}, {}, FALSE)]
    /\ nextId' = nextId + 1
    /\ call' = [call EXCEPT ![p].phase = "executed"]
    /\ UNCHANGED <<table, schema, outcome, job, file, losses>>

\* A read does not commit.  An export gets the characteristics in the table.
SendRead(p) ==
    /\ Reaches(p) /\ schema /\ TableIsFree(p)
    /\ call[p].op \in Reads
    /\ Returns(p)
    /\ IF job[p].what = "export"
       THEN LET rows == SetToSeq(table) IN
            job' = [job EXCEPT ![p].what = "open",
                               ![p].items = [i \in DOMAIN rows |-> rows[i].char]]
       ELSE UNCHANGED job
    /\ UNCHANGED <<server, file, losses>>

SendDelete(p) ==
    /\ Reaches(p) /\ schema /\ TableIsFree(p)
    /\ call[p].op \in Deletes
    /\ txn' = [txn EXCEPT ![p] = Transaction({}, {}, FALSE)]
    /\ call' = [call EXCEPT ![p].phase = "waiting", ![p].seen = table]
    /\ UNCHANGED <<server, outcome, job, file, losses>>

Locked(p) == UNION {txn[q].dels : q \in Procs \ {p}}

\* Fault: rows that another transaction is deleting are skipped.
DeleteSkipping(p) ==
    LET found == Found(call[p].op, call[p].seen \cap table) IN
    /\ In(p, "waiting") /\ conn[p] = "open"
    /\ txn' = [txn EXCEPT ![p].dels = found \ Locked(p)]
    /\ call' = [call EXCEPT ![p].phase = "executed", ![p].seen = {}]
    /\ UNCHANGED <<server, conn, outcome, job, file, losses>>

Delete(p) ==
    LET found == Found(call[p].op, call[p].seen \cap table) IN
    /\ In(p, "waiting") /\ conn[p] = "open"
    /\ found \cap Locked(p) = {}
    /\ txn' = [txn EXCEPT ![p].dels = found]
    /\ call' = [call EXCEPT ![p].phase = "executed", ![p].seen = {}]
    /\ UNCHANGED <<server, conn, outcome, job, file, losses>>

SendInitialize(p) ==
    /\ Reaches(p) /\ call[p].op = Initialize
    /\ \A q \in Procs \ {p} : ~txn[q].open
    /\ txn' = [txn EXCEPT ![p] = Transaction({}, {}, TRUE)]
    /\ call' = [call EXCEPT ![p].phase = "executed"]
    /\ UNCHANGED <<server, outcome, job, file, losses>>

\* The statement fails: the table has not been created.
SendFails(p) ==
    /\ Reaches(p) /\ ~schema /\ TableIsFree(p)
    /\ call[p].op # Initialize
    /\ Throws(p, "open")
    /\ UNCHANGED <<server, file, losses>>

\* What the server does when the transaction of p commits.  A process that
\* imports is no longer alone when another one changes the table.
Committed(p) ==
    /\ table' = IF txn[p].drops THEN {} ELSE (table \ txn[p].dels) \cup txn[p].adds
    /\ schema' = TRUE
    /\ UNCHANGED nextId

NotAlone(p) ==
    [q \in Procs |-> IF q # p /\ job[q].what = "import"
                     THEN [job[q] EXCEPT !.alone = FALSE] ELSE job[q]]

Commit(p) ==
    /\ In(p, "executed") /\ conn[p] = "open"
    /\ Committed(p)
    /\ Returns(p)
    /\ job' = NotAlone(p)
    /\ UNCHANGED <<conn, file, losses>>

\* Fault: what was not answered is tried again.
CommitRetried(p) ==
    /\ In(p, "executed") /\ conn[p] = "open" /\ losses < MaxLosses
    /\ Committed(p)
    /\ losses' = losses + 1
    /\ conn' = [conn EXCEPT ![p] = "closed"]
    /\ txn' = [txn EXCEPT ![p] = NoTransaction]
    /\ Calls(p, call[p].op)
    /\ job' = NotAlone(p)
    /\ UNCHANGED file

\* The connection is lost after the commit and before the answer.
CommitUnanswered(p) ==
    /\ In(p, "executed") /\ conn[p] = "open" /\ losses < MaxLosses
    /\ Committed(p)
    /\ losses' = losses + 1
    /\ conn' = [conn EXCEPT ![p] = "closed"]
    /\ txn' = [txn EXCEPT ![p] = NoTransaction]
    /\ call' = [call EXCEPT ![p] = NoCall]
    /\ outcome' = [outcome EXCEPT ![p] = "failed"]
    /\ job' = [NotAlone(p) EXCEPT ![p] = NoJob]
    /\ UNCHANGED file

\* The server drops the connection: it rolls the transaction back, and the
\* process learns of it when it next uses the connection.
Lose(p) ==
    /\ conn[p] = "open" /\ losses < MaxLosses
    /\ conn' = [conn EXCEPT ![p] = "stale"]
    /\ txn' = [txn EXCEPT ![p] = NoTransaction]
    /\ losses' = losses + 1
    /\ UNCHANGED <<server, call, outcome, job, file>>

\* Fault: the statement is sent again on the same connection.
BrokenResend(p) ==
    /\ conn[p] = "stale"
    /\ call[p] # NoCall
    /\ call' = [call EXCEPT ![p].phase = IF @ = "called" THEN "waiting" ELSE "called"]
    /\ UNCHANGED <<server, conn, txn, outcome, job, file, losses>>

BrokenConnection(p) ==
    /\ conn[p] = "stale"
    /\ call[p] # NoCall
    /\ Throws(p, "closed")
    /\ UNCHANGED <<server, file, losses>>

\* The process is killed, and started again.
Crash(p) ==
    /\ conn' = [conn EXCEPT ![p] = "closed"]
    /\ txn' = [txn EXCEPT ![p] = NoTransaction]
    /\ call' = [call EXCEPT ![p] = NoCall]
    /\ outcome' = [outcome EXCEPT ![p] = IF call[p] = NoCall THEN @ ELSE "failed"]
    /\ JobEnds(p)
    /\ UNCHANGED <<server, file, losses>>

-----------------------------------------------------------------------------
(* SnapshotManager. *)

\* import_from_json: the file is read and parsed before anything is cleared.
Import(p) ==
    /\ p \in Admins /\ Free(p)
    /\ \E f \in Files, clear \in BOOLEAN :
           IF file[f].readable
           THEN /\ job' = [job EXCEPT ![p] = [Job("import") EXCEPT
                             !.items = file[f].items, !.clear = clear]]
                /\ IF clear
                   THEN Calls(p, Op("clear", "any"))
                   ELSE UNCHANGED <<call, outcome>>
           ELSE JobEnds(p) /\ UNCHANGED <<call, outcome>>
    /\ UNCHANGED <<server, conn, txn, file, losses>>

Importing(p) == job[p].what = "import" /\ call[p] = NoCall

\* from_json and insert for the next item; from_json throws for a Mistyped one.
ImportItem(p) ==
    LET item == job[p].items[job[p].next] IN
    /\ Importing(p) /\ job[p].next <= Len(job[p].items)
    /\ IF item = Mistyped
       THEN JobEnds(p) /\ UNCHANGED <<call, outcome>>
       ELSE /\ Calls(p, Op("insert", item))
            /\ job' = [job EXCEPT ![p].next = @ + 1]
    /\ UNCHANGED <<server, conn, txn, file, losses>>

Imported(p) ==
    /\ Importing(p) /\ job[p].next > Len(job[p].items)
    /\ JobEnds(p)
    /\ UNCHANGED <<server, conn, txn, call, outcome, file, losses>>

\* export_to_json.
Export(p) ==
    /\ p \in Admins /\ Free(p)
    /\ job' = [job EXCEPT ![p] = Job("export")]
    /\ Calls(p, Op("read", "any"))
    /\ UNCHANGED <<server, conn, txn, file, losses>>

Truncate(p) ==
    /\ job[p].what = "open"
    /\ \/ \E f \in Targets :
             /\ file' = [file EXCEPT ![f] = Contents(FALSE, <<>>)]
             /\ job' = [job EXCEPT ![p].what = "write", ![p].into = f]
       \/ JobEnds(p) /\ UNCHANGED file      \* cannot be opened
    /\ UNCHANGED <<server, conn, txn, call, outcome, losses>>

\* The state of the stream is not looked at: what cannot be written is
\* reported as exported all the same.
Write(p) ==
    /\ job[p].what = "write"
    /\ \/ file' = [file EXCEPT ![job[p].into] = Contents(TRUE, job[p].items)]
       \/ UNCHANGED file
    /\ JobEnds(p)
    /\ UNCHANGED <<server, conn, txn, call, outcome, losses>>

-----------------------------------------------------------------------------
CallStep(p) ==
    \/ ConnectFails(p)
    \/ SendInsert(p) \/ SendRead(p) \/ SendDelete(p) \/ SendInitialize(p) \/ SendFails(p)
    \/ Delete(p)
    \/ Commit(p) \/ CommitUnanswered(p) \/ BrokenConnection(p)

JobStep(p) == ImportItem(p) \/ Imported(p) \/ Truncate(p) \/ Write(p)

Next ==
    \E p \in Procs :
        Call(p) \/ Import(p) \/ Export(p) \/ CallStep(p) \/ JobStep(p) \/ Lose(p) \/ Crash(p)

\* Threads run, and the server grants locks in the order they were asked for.
Fairness ==
    \A p \in Procs : SF_vars(CallStep(p)) /\ WF_vars(JobStep(p))

Spec == Init /\ [][Next]_vars

FairSpec == Spec /\ Fairness

-----------------------------------------------------------------------------
(* Properties. *)

TypeOK ==
    /\ table \subseteq Rows
    /\ schema \in BOOLEAN
    /\ nextId \in 1..(MaxRows + 1)
    /\ conn \in [Procs -> {"closed", "open", "stale"}]
    /\ txn \in [Procs -> [open : BOOLEAN, adds : SUBSET Rows, dels : SUBSET Rows,
                          drops : BOOLEAN]]
    /\ call \in [Procs -> [op : Ops \cup {NoOp}, there : SUBSET Rows, seen : SUBSET Rows,
                           phase : {"none", "called", "waiting", "executed"}]]
    /\ outcome \in [Procs -> {"ok", "failed"}]
    /\ job \in [Procs -> [what : {"none", "import", "export", "open", "write"},
                          items : Seq(Items), next : Nat, clear : BOOLEAN,
                          alone : BOOLEAN, into : Files \cup {"none"}]]
    /\ file \in [Files -> [readable : BOOLEAN, items : Seq(Items)]]
    /\ losses \in 0..MaxLosses
    /\ \A p \in Procs :
        /\ call[p] = NoCall <=> call[p].phase = "none"
        /\ txn[p].open => conn[p] = "open" /\ call[p].phase \in {"waiting", "executed"}
        /\ ~txn[p].open => txn[p] = NoTransaction
        /\ call[p] # NoCall /\ Working(p) => job[p].what \in {"import", "export"}

\* Whatever is lost, and whoever else uses the table: each call takes effect
\* once and altogether, at most once if it throws, and a deletion removes all
\* the matching rows that were there before it.
Contract == INSTANCE CharacteristicTable WITH
    pending <- [p \in Procs |-> [op |-> call[p].op, there |-> call[p].there]]

ImplementsTable == Contract!Spec

\* As many rows of each characteristic as there are among the first n items.
Count(c, items, n) == Cardinality({i \in 1..n : items[i] = c})

Holds(rows, items, n) ==
    \A c \in Chars : Cardinality({r \in rows : r.char = c}) = Count(c, items, n)

\* An import with --clear that has come to its end, and during which no
\* other process changed the table, leaves in the table what is in the snapshot.
RestoreIsComplete ==
    \A p \in Procs :
        /\ Importing(p) /\ job[p].next > Len(job[p].items)
        /\ job[p].clear /\ job[p].alone
        => Holds(table, job[p].items, Len(job[p].items))

\* Nothing puts back what such an import has cleared when it fails or its
\* process is killed in the middle; what it leaves is then the items it had
\* come to, each once, with or without the one it was inserting, or the table
\* as it was when it had not yet cleared it.
StoppedRestoreIsPrefix ==
    [][\A p \in Procs :
        job[p].what = "import" /\ job[p].clear /\ job[p].alone /\ job'[p] = NoJob =>
            \/ Holds(table', job[p].items, job[p].next - 1)
            \/ call[p].op \in Inserts /\ Holds(table', job[p].items, job[p].next - 2)
            \/ call[p].op = Op("clear", "any") /\ table' = call[p].there]_vars

\* Whatever others hold locked, and whenever the connection is lost, every
\* call ends.
EveryCallReturns == \A p \in Procs : call[p] # NoCall ~> call[p] = NoCall
=============================================================================
