--------------------------- MODULE DatabaseProofs ---------------------------
(* Proofs about the database, for any processes, characteristics and losses *)
(* of connections: the transactions implement the contract of               *)
(* CharacteristicTable, a restore that nobody disturbs is complete when it  *)
(* comes to its end, and leaves the beginning of its snapshot when it       *)
(* fails.                                                                   *)
EXTENDS Database, SequenceTheorems, FiniteSetTheorems, TLAPS

-----------------------------------------------------------------------------
(* The inductive invariant. *)

\* What a call of p has sent fits the operation.
CallOK(p) ==
    /\ call[p] # NoCall => call[p].op \in Ops
    /\ call[p].there \subseteq Found(call[p].op, Rows)
    /\ call[p].phase = "waiting" => call[p].op \in Deletes
    /\ call[p].phase = "executed" => call[p].op \notin Reads
    /\ call[p].phase \in {"waiting", "executed"} /\ conn[p] = "open" => txn[p].open

TransactionOK(p) ==
    /\ txn[p].drops <=> txn[p].open /\ call[p].op = Initialize
    /\ txn[p].open /\ call[p].op \in Inserts =>
           \E r \in Rows : r.char = call[p].op.arg /\ txn[p].adds = {r}
    /\ txn[p].adds # {} => call[p].op \in Inserts
    /\ txn[p].dels \subseteq Found(call[p].op, Rows)

\* The rows a deletion owes are among those it has seen, then among those it
\* has locked, unless somebody else has removed them.
OwedOK(p) ==
    txn[p].open =>
        /\ call[p].phase = "waiting" => call[p].there \cap table \subseteq call[p].seen
        /\ call[p].phase = "executed" => call[p].there \cap table \subseteq txn[p].dels

\* A row that is being inserted is new to everybody.
FreshOK(p) ==
    /\ \A r \in txn[p].adds \cup call[p].there : r.id < nextId
    /\ txn[p].adds \cap table = {}

Apart(p, q) ==
    /\ txn[p].adds \cap call[q].there = {}
    /\ p # q => txn[p].adds \cap txn[q].adds = {}

ProcessOK(p) == CallOK(p) /\ TransactionOK(p) /\ OwedOK(p) /\ FreshOK(p)

SharedOK ==
    /\ IsFiniteSet(table)
    /\ \A r \in table : r.id < nextId
    /\ \A p \in Procs : ProcessOK(p)
    /\ \A p, q \in Procs : Apart(p, q)

\* How many items an import has added: those before the next one, but for the
\* one that it is inserting.
Done(p) == IF call[p].op \in Inserts THEN job[p].next - 2 ELSE job[p].next - 1

ImportOK(p) ==
    job[p].what = "import" =>
        /\ Done(p) \in 0..Len(job[p].items)
        /\ call[p].op \in Inserts => /\ Done(p) + 1 <= Len(job[p].items)
                                    /\ call[p].op.arg = job[p].items[Done(p) + 1]

ImportsOK == \A p \in Procs : ImportOK(p)

IInv == TypeOK /\ SharedOK /\ ImportsOK

\* An import that clears the table and is alone finds it as it was until the
\* clearing is done, and has then left in it the items that it has added.
Clear == Op("clear", "any")

Holding(c, rows) == {r \in rows : r.char = c}

RestoreOK(p) ==
    job[p].what = "import" =>
        /\ call[p] # NoCall /\ call[p].op \notin Inserts =>
               call[p].op = Clear /\ job[p].next = 1
        /\ job[p].clear /\ job[p].alone =>
               IF call[p].op = Clear THEN table = call[p].there
               ELSE Holds(table, job[p].items, Done(p))

RestoresOK == \A p \in Procs : RestoreOK(p)

-----------------------------------------------------------------------------
(* Facts about the operations. *)

LEMMA Kinds ==
    /\ \A op \in Inserts : op \notin Deletes \cup Reads \cup {Initialize, NoOp}
    /\ \A op \in Deletes : op \notin Reads \cup {Initialize, NoOp}
    /\ \A op \in Reads : op \notin {Initialize, NoOp}
    /\ Initialize # NoOp /\ NoOp \notin Ops
<1>1. /\ \A op \in Inserts : op.kind = "insert"
      /\ \A op \in Deletes : op.kind \in {"delete", "clear"}
      /\ \A op \in Reads : op.kind = "read"
      /\ Initialize.kind = "initialize" /\ NoOp.kind = "none"
    BY DEF Inserts, Deletes, Reads, Initialize, NoOp, Op
<1>2. QED  BY <1>1 DEF Ops

LEMMA FoundFacts ==
    ASSUME NEW op, NEW R, NEW S
    PROVE  /\ Found(op, R) \subseteq R
           /\ Found(op, S) \cap R \subseteq Found(op, R)
           /\ op \in Ops \cup {NoOp} /\ op \notin Deletes => Found(op, R) = {}
<1>1. Found(op, R) \subseteq R /\ Found(op, S) \cap R \subseteq Found(op, R)
    BY DEF Found
<1>2. ASSUME op \in Ops \cup {NoOp}, op \notin Deletes
      PROVE  op.kind \notin {"clear", "delete"}
    BY <1>2 DEF Ops, Inserts, Deletes, Reads, Initialize, NoOp, Op
<1>3. QED  BY <1>1, <1>2 DEF Found

CallType ==
    [op : Ops \cup {NoOp}, there : SUBSET Rows, seen : SUBSET Rows,
     phase : {"none", "called", "waiting", "executed"}]

TransactionType == [open : BOOLEAN, adds : SUBSET Rows, dels : SUBSET Rows, drops : BOOLEAN]

JobType ==
    [what : {"none", "import", "export", "open", "write"},
     items : Seq(Items), next : Nat, clear : BOOLEAN, alone : BOOLEAN,
     into : Files \cup {"none"}]

LEMMA Nothing ==
    /\ NoCall \in CallType /\ NoTransaction \in TransactionType /\ NoJob \in JobType
    /\ NoCall.op = NoOp /\ NoCall.there = {} /\ NoCall.phase = "none"
    /\ ~NoTransaction.open /\ NoTransaction.adds = {} /\ NoTransaction.dels = {}
    /\ ~NoTransaction.drops
    /\ NoJob.what = "none"
<1>1. <<>> \in Seq(Items)  BY EmptySeq
<1>2. NoJob \in JobType /\ NoJob.what = "none"  BY <1>1 DEF NoJob, Job, JobType
<1>3. QED  BY <1>2 DEF NoCall, CallType, NoTransaction, TransactionType

LEMMA CallingFacts ==
    ASSUME TypeOK, NEW op \in Ops
    PROVE  /\ Calling(op) \in CallType /\ Calling(op) # NoCall
           /\ Calling(op).op = op /\ Calling(op).there = Found(op, table)
           /\ Calling(op).phase = "called"
BY FoundFacts, Kinds DEF Calling, CallType, NoCall, TypeOK

-----------------------------------------------------------------------------
(* A step of one process. *)

\* p comes to be inside the call c, with the transaction t on the connection n.
Step(p, c, t, n, o) ==
    /\ call' = [call EXCEPT ![p] = c]
    /\ txn' = [txn EXCEPT ![p] = t]
    /\ conn' = [conn EXCEPT ![p] = n]
    /\ outcome' = [outcome EXCEPT ![p] = o]

\* The other processes go on with what they do.
OthersWork(p) ==
    \A q \in Procs \ {p} :
        \/ job'[q] = job[q]
        \/ job[q].what = "import" /\ job'[q] = [job[q] EXCEPT !.alone = FALSE]

LEMMA StepFacts ==
    ASSUME TypeOK, NEW p \in Procs, NEW c, NEW t, NEW n, NEW o, Step(p, c, t, n, o)
    PROVE  /\ call'[p] = c /\ txn'[p] = t /\ conn'[p] = n /\ outcome'[p] = o
           /\ \A q \in Procs \ {p} :
                 /\ call'[q] = call[q] /\ txn'[q] = txn[q]
                 /\ conn'[q] = conn[q] /\ outcome'[q] = outcome[q]
BY DEF Step, TypeOK

LEMMA TypeKeeps ==
    ASSUME TypeOK, NEW p \in Procs, NEW c \in CallType, NEW t \in TransactionType,
           NEW n \in {"closed", "open", "stale"}, NEW o \in {"ok", "failed"},
           Step(p, c, t, n, o),
           table' \subseteq Rows, schema' \in BOOLEAN, nextId' \in 1..(MaxRows + 1),
           file' \in [Files -> [readable : BOOLEAN, items : Seq(Items)]],
           losses' \in 0..MaxLosses,
           job' \in [Procs -> JobType], OthersWork(p),
           c = NoCall <=> c.phase = "none",
           t.open => n = "open" /\ c.phase \in {"waiting", "executed"},
           ~t.open => t = NoTransaction,
           c # NoCall => job'[p] = NoJob \/ job'[p].what \in {"import", "export"}
    PROVE  TypeOK'
<1>1. /\ call' \in [Procs -> CallType] /\ txn' \in [Procs -> TransactionType]
      /\ conn' \in [Procs -> {"closed", "open", "stale"}]
      /\ outcome' \in [Procs -> {"ok", "failed"}]
    BY DEF Step, TypeOK, CallType, TransactionType
<1>2. ASSUME NEW q \in Procs
      PROVE  /\ call'[q] = NoCall <=> call'[q].phase = "none"
             /\ txn'[q].open => conn'[q] = "open" /\ call'[q].phase \in {"waiting", "executed"}
             /\ ~txn'[q].open => txn'[q] = NoTransaction
    <2>1. CASE q = p  BY <2>1, StepFacts
    <2>2. CASE q # p
        <3>1. call'[q] = call[q] /\ txn'[q] = txn[q] /\ conn'[q] = conn[q]
            BY <2>2, StepFacts
        <3>2. /\ call[q] = NoCall <=> call[q].phase = "none"
              /\ txn[q].open => conn[q] = "open" /\ call[q].phase \in {"waiting", "executed"}
              /\ ~txn[q].open => txn[q] = NoTransaction
            BY DEF TypeOK
        <3>3. QED  BY <3>1, <3>2
    <2>3. QED  BY <2>1, <2>2
<1>3. ASSUME NEW q \in Procs, call'[q] # NoCall, job'[q] # NoJob
      PROVE  job'[q].what \in {"import", "export"}
    <2>1. CASE q = p  BY <1>3, <2>1, StepFacts
    <2>2. CASE q # p
        <3>1. call[q] # NoCall  BY <1>3, <2>2, StepFacts
        <3>2. CASE job'[q] = job[q]  BY <1>3, <3>1, <3>2 DEF TypeOK, Working
        <3>3. CASE job[q].what = "import" /\ job'[q] = [job[q] EXCEPT !.alone = FALSE]
            BY <3>3 DEF TypeOK
        <3>4. QED  BY <2>2, <3>2, <3>3 DEF OthersWork
    <2>3. QED  BY <2>1, <2>2
<1>4. \A q \in Procs :
        /\ call'[q] = NoCall <=> call'[q].phase = "none"
        /\ txn'[q].open => conn'[q] = "open" /\ call'[q].phase \in {"waiting", "executed"}
        /\ ~txn'[q].open => txn'[q] = NoTransaction
        /\ call'[q] # NoCall /\ job'[q] # NoJob => job'[q].what \in {"import", "export"}
    BY <1>2, <1>3
<1>5. QED  BY <1>1, <1>4 DEF TypeOK, Working, CallType, TransactionType, JobType

\* Rows only leave the table, but for those of p: the others keep what they know.
LEMMA OthersKeep ==
    ASSUME TypeOK, SharedOK, NEW p \in Procs, NEW q \in Procs, p # q,
           call'[q] = call[q], txn'[q] = txn[q], conn'[q] = conn[q],
           table' \subseteq table \cup txn[p].adds, nextId' \in Nat, nextId' >= nextId
    PROVE  ProcessOK(q)'
<1>1. ProcessOK(q) /\ Apart(p, q)  BY DEF SharedOK
<1>2. CallOK(q)' /\ TransactionOK(q)'
    BY <1>1 DEF ProcessOK, CallOK, TransactionOK
<1>3. OwedOK(q)'
    <2>1. call[q].there \cap table' \subseteq call[q].there \cap table
        BY <1>1 DEF Apart
    <2>2. QED  BY <1>1, <2>1 DEF ProcessOK, OwedOK
<1>4. FreshOK(q)'
    <2>1. txn[q].adds \cap table' = {}  BY <1>1 DEF ProcessOK, FreshOK, Apart
    <2>2. ASSUME NEW r \in txn[q].adds \cup call[q].there PROVE r.id < nextId'
        <3>1. r \in Rows /\ r.id \in Nat  BY <2>2 DEF TypeOK, Rows
        <3>2. r.id < nextId /\ nextId \in Nat
            BY <1>1, <2>2 DEF ProcessOK, FreshOK, TypeOK, Rows
        <3>3. QED  BY <3>1, <3>2
    <2>3. QED  BY <2>1, <2>2 DEF FreshOK
<1>5. QED  BY <1>2, <1>3, <1>4 DEF ProcessOK

\* A step of p may remove rows, commit what p has added, and add a new row to
\* its transaction.
LEMMA SharedKeeps ==
    ASSUME TypeOK, SharedOK, NEW p \in Procs, NEW c, NEW t, NEW n, NEW o,
           Step(p, c, t, n, o),
           table' \subseteq table \cup txn[p].adds, nextId' \in Nat, nextId' >= nextId,
           ProcessOK(p)',
           t.adds \subseteq txn[p].adds \/ \A r \in t.adds : r.id = nextId,
           c.there \subseteq call[p].there \cup table,
           t.adds \cap c.there = {}
    PROVE  SharedOK'
<1>1. /\ call'[p] = c /\ txn'[p] = t /\ conn'[p] = n
      /\ \A q \in Procs \ {p} : call'[q] = call[q] /\ txn'[q] = txn[q] /\ conn'[q] = conn[q]
    BY StepFacts
<1>2. IsFiniteSet(table')
    <2>1. IsFiniteSet(txn[p].adds)
        <3>1. CASE txn[p].adds = {}  BY <3>1, FS_EmptySet
        <3>2. CASE txn[p].adds # {}
            <4>1. call[p].op \in Inserts /\ txn[p].open
                BY <3>2, Nothing DEF SharedOK, ProcessOK, TransactionOK, TypeOK
            <4>2. PICK r \in Rows : txn[p].adds = {r}
                <5>1. TransactionOK(p)  BY DEF SharedOK, ProcessOK
                <5>2. QED  BY <4>1, <5>1 DEF TransactionOK
            <4>3. QED  BY <4>2, FS_Singleton, Zenon
        <3>3. QED  BY <3>1, <3>2
    <2>2. IsFiniteSet(table \cup txn[p].adds)  BY <2>1, FS_Union DEF SharedOK
    <2>3. QED  BY <2>2, FS_Subset
<1>3. \A r \in table' : r.id < nextId'
    <2> SUFFICES ASSUME NEW r \in table' PROVE r.id < nextId'
        OBVIOUS
    <2>1. r \in Rows /\ r.id \in Nat  BY DEF TypeOK, Rows
    <2>2. r.id < nextId /\ nextId \in Nat  BY DEF SharedOK, ProcessOK, FreshOK, TypeOK
    <2>3. QED  BY <2>1, <2>2
<1>4. \A q \in Procs : ProcessOK(q)'
    <2> SUFFICES ASSUME NEW q \in Procs, p # q PROVE ProcessOK(q)'
        OBVIOUS
    <2>1. QED  BY <1>1, OthersKeep
<1>5. ASSUME NEW q \in Procs, NEW r \in Procs PROVE Apart(q, r)'
    <2>1. Apart(q, r) /\ Apart(r, q) /\ FreshOK(q) /\ FreshOK(r) /\ FreshOK(p) /\ Apart(p, r) /\ Apart(q, p)
        BY DEF SharedOK, ProcessOK
    <2>2. ASSUME NEW x \in t.adds
          PROVE  /\ r # p => x \notin txn[r].adds /\ x \notin call[r].there
                 /\ q # p => x \notin txn[q].adds
        <3>1. CASE x \in txn[p].adds  BY <2>1, <3>1 DEF Apart, SharedOK
        <3>2. CASE x.id = nextId
            BY <2>1, <3>2 DEF FreshOK, TypeOK
        <3>3. QED  BY <2>2, <3>1, <3>2
    <2>3. CASE q = p /\ r = p  BY <1>1, <2>3 DEF Apart
    <2>4. CASE q = p /\ r # p  BY <1>1, <2>2, <2>4 DEF Apart
    <2>5. CASE q # p /\ r = p
        <3>1. txn[q].adds \cap c.there = {}  BY <2>1 DEF FreshOK, Apart
        <3>2. QED  BY <1>1, <2>2, <2>5, <3>1 DEF Apart
    <2>6. CASE q # p /\ r # p  BY <1>1, <2>1, <2>6 DEF Apart
    <2>7. QED  BY <2>3, <2>4, <2>5, <2>6
<1>6. QED  BY <1>2, <1>3, <1>4, <1>5 DEF SharedOK

-----------------------------------------------------------------------------
(* What a step is to the contract. *)

Pending == [p \in Procs |-> [op |-> call[p].op, there |-> call[p].there]]

LEMMA PendingFacts ==
    ASSUME TypeOK, NEW p \in Procs, NEW c, NEW t, NEW n, NEW o, Step(p, c, t, n, o)
    PROVE  Pending' = [Pending EXCEPT ![p] = [op |-> c.op, there |-> c.there]]
<1>1. \A q \in Procs : call'[q] = IF q = p THEN c ELSE call[q]  BY StepFacts
<1>2. QED  BY <1>1 DEF Pending

LEMMA QuietRefines ==
    ASSUME TypeOK, NEW p \in Procs, NEW c, NEW t, NEW n, Step(p, c, t, n, outcome[p]),
           c.op = call[p].op, c.there = call[p].there, UNCHANGED table
    PROVE  UNCHANGED <<table, Pending, outcome>>
<1>1. \A q \in Procs : call'[q].op = call[q].op /\ call'[q].there = call[q].there
    <2>1. call'[p] = c /\ \A q \in Procs \ {p} : call'[q] = call[q]  BY StepFacts
    <2>2. QED  BY <2>1
<1>2. Pending' = Pending  BY <1>1 DEF Pending
<1>3. outcome' = outcome  BY DEF Step, TypeOK
<1>4. QED  BY <1>2, <1>3

LEMMA BeginRefines ==
    ASSUME TypeOK, NEW p \in Procs, NEW op \in Ops, NEW t, NEW n, Step(p, Calling(op), t, n, "ok"),
           call[p] = NoCall, UNCHANGED table
    PROVE  Contract!Begin(p)
<1>1. Pending[p] = Contract!Idle
    BY Nothing DEF Pending, Contract!Idle, Contract!NoOp, Contract!Op, NoOp, Op
<1>2. Pending' = [Pending EXCEPT ![p] = [op |-> op, there |-> Found(op, table)]]
    BY PendingFacts, CallingFacts
<1>3. outcome' = [outcome EXCEPT ![p] = "ok"]  BY DEF Step
<1>4. op \in Contract!Ops /\ Found(op, table) = Contract!Found(op, table)
    BY DEF Contract!Ops, Contract!Inserts, Contract!Deletes, Contract!Reads, Contract!Initialize,
        Contract!Op, Contract!Found, Ops, Inserts, Deletes, Reads, Initialize, Op, Found
<1>5. QED  BY <1>1, <1>2, <1>3, <1>4 DEF Contract!Begin, Pending

\* Whatever ends a call: it has taken effect, or it throws.
LEMMA EndRefines ==
    ASSUME TypeOK, SharedOK, NEW p \in Procs, NEW t, NEW n, NEW o \in {"ok", "failed"},
           Step(p, NoCall, t, n, o), call[p] # NoCall,
           Contract!Effect(p) \/ (o = "failed" /\ UNCHANGED table)
    PROVE  Contract!Return(p) \/ Contract!Throw(p)
<1>1. Pending[p] # Contract!Idle
    <2>1. call[p].op # NoOp  BY Kinds DEF SharedOK, ProcessOK, CallOK
    <2>2. QED  BY <2>1 DEF Pending, Contract!Idle, Contract!NoOp, Contract!Op, NoOp, Op
<1>2. Pending' = [Pending EXCEPT ![p] = Contract!Idle]
    BY PendingFacts, Nothing DEF Contract!Idle, Contract!NoOp, Contract!Op, NoOp, Op
<1>3. outcome' = [outcome EXCEPT ![p] = o]  BY DEF Step
<1>4. Contract!Ends(p, o)  BY <1>1, <1>2, <1>3 DEF Contract!Ends, Pending
<1>5. QED  BY <1>4 DEF Contract!Return, Contract!Throw

LEMMA ReadHasEffect ==
    ASSUME NEW p \in Procs, call[p].op \in Reads, UNCHANGED table
    PROVE  Contract!Effect(p)
<1>1. call[p].op \in Contract!Reads
    BY DEF Contract!Reads, Contract!Op, Reads, Op
<1>2. QED  BY <1>1 DEF Contract!Effect

\* A commit is where a call takes effect, whether or not its answer arrives.
LEMMA CommitHasEffect ==
    ASSUME TypeOK, SharedOK, NEW p \in Procs, In(p, "executed"), conn[p] = "open", Committed(p)
    PROVE  /\ Contract!Effect(p)
           /\ table' \subseteq table \cup txn[p].adds /\ table' \subseteq Rows
           /\ schema' \in BOOLEAN /\ nextId' = nextId
           /\ call[p] # NoCall /\ txn[p].open
<1>1. /\ CallOK(p) /\ TransactionOK(p) /\ OwedOK(p) /\ FreshOK(p)
      /\ call[p].phase = "executed" /\ txn[p].open
    BY DEF SharedOK, ProcessOK, CallOK, In
<1>2. table' = IF txn[p].drops THEN {} ELSE (table \ txn[p].dels) \cup txn[p].adds
    BY DEF Committed
<1>3. call[p] # NoCall /\ call[p].op \in Ops /\ call[p].op \notin Reads
    BY <1>1, Nothing DEF CallOK
<1>4. CASE call[p].op = Initialize
    <2>1. table' = {}  BY <1>1, <1>2, <1>4 DEF TransactionOK
    <2>2. call[p].op = Contract!Initialize
        BY <1>4 DEF Contract!Initialize, Contract!Op, Initialize, Op
    <2>3. Contract!Effect(p)  BY <2>1, <2>2 DEF Contract!Effect
    <2>4. QED  BY <1>1, <1>3, <2>1, <2>3 DEF Committed
<1>5. CASE call[p].op \in Inserts
    <2>1. PICK r \in Rows : r.char = call[p].op.arg /\ txn[p].adds = {r}
        BY <1>1, <1>5 DEF TransactionOK
    <2>2. txn[p].dels = {} /\ ~txn[p].drops
        BY <1>1, <1>3, <1>5, Kinds, FoundFacts DEF TransactionOK
    <2>3. table' = table \cup {r} /\ r \notin table
        BY <1>1, <1>2, <2>1, <2>2 DEF FreshOK
    <2>4. call[p].op \in Contract!Inserts /\ r \in Contract!Rows
        BY <1>5 DEF Contract!Inserts, Contract!Op, Inserts, Op, Contract!Rows, Rows
    <2>5. Contract!Effect(p)  BY <2>1, <2>3, <2>4 DEF Contract!Effect
    <2>6. QED  BY <1>1, <1>3, <2>1, <2>3, <2>5 DEF Committed, TypeOK
<1>6. CASE call[p].op \in Deletes
    <2> DEFINE gone == txn[p].dels \cap table
    <2>1. txn[p].adds = {} /\ ~txn[p].drops
        BY <1>1, <1>6, Kinds DEF TransactionOK
    <2>2. table' = table \ gone  BY <1>2, <2>1
    <2>3. gone \subseteq Found(call[p].op, table)
        BY <1>1, FoundFacts DEF TransactionOK
    <2>4. table \cap call[p].there \subseteq gone  BY <1>1 DEF OwedOK
    <2>5. /\ call[p].op \in Contract!Deletes
          /\ Found(call[p].op, table) = Contract!Found(call[p].op, table)
        BY <1>6 DEF Contract!Deletes, Contract!Op, Deletes, Op, Contract!Found, Found
    <2>6. Contract!Effect(p)  BY <2>2, <2>3, <2>4, <2>5 DEF Contract!Effect
    <2>7. QED  BY <1>1, <1>3, <2>2, <2>6 DEF Committed, TypeOK
<1>7. QED  BY <1>3, <1>4, <1>5, <1>6 DEF Ops

-----------------------------------------------------------------------------
(* Imports. *)

\* A step that leaves the job of p alone, and its call as much an insertion of
\* an item as it was.
LEMMA ImportStays ==
    ASSUME NEW p \in Procs, ImportOK(p),
           \/ call'[p].op = call[p].op
           \/ call'[p].op \notin Inserts /\ call[p].op \notin Inserts,
           \/ job'[p] = job[p]
           \/ job[p] \in JobType /\ job'[p] = [job[p] EXCEPT !.alone = FALSE]
    PROVE  ImportOK(p)'
<1>1. /\ job'[p].what = job[p].what /\ job'[p].next = job[p].next
      /\ job'[p].items = job[p].items
    BY DEF JobType
<1>2. QED  BY <1>1 DEF ImportOK, Done

LEMMA ImportsKeep ==
    ASSUME TypeOK, ImportsOK, NEW p \in Procs, NEW c, NEW t, NEW n, NEW o,
           Step(p, c, t, n, o), OthersWork(p), ImportOK(p)'
    PROVE  ImportsOK'
<1> SUFFICES ASSUME NEW q \in Procs, q # p PROVE ImportOK(q)'
    BY DEF ImportsOK
<1>1. call'[q].op = call[q].op  BY StepFacts
<1>2. job[q] \in JobType  BY DEF TypeOK, JobType
<1>3. job'[q] = job[q] \/ job'[q] = [job[q] EXCEPT !.alone = FALSE]  BY DEF OthersWork
<1>4. QED  BY <1>1, <1>2, <1>3, ImportStays DEF ImportsOK

-----------------------------------------------------------------------------
(* The steps. *)

ConnType == {"closed", "open", "stale"}

Refines == Contract!Next \/ UNCHANGED <<table, Pending, outcome>>

LEMMA Facts ==
    ASSUME IInv, NEW p \in Procs
    PROVE  /\ TypeOK /\ SharedOK /\ ImportsOK
           /\ call[p] \in CallType /\ txn[p] \in TransactionType /\ conn[p] \in ConnType
           /\ outcome[p] \in {"ok", "failed"} /\ job \in [Procs -> JobType] /\ job[p] \in JobType
           /\ table \subseteq Rows /\ schema \in BOOLEAN
           /\ nextId \in Nat /\ nextId \in 1..(MaxRows + 1)
           /\ file \in [Files -> [readable : BOOLEAN, items : Seq(Items)]]
           /\ losses \in 0..MaxLosses
           /\ call[p] = NoCall <=> call[p].phase = "none"
           /\ txn[p].open => conn[p] = "open" /\ call[p].phase \in {"waiting", "executed"}
           /\ ~txn[p].open => txn[p] = NoTransaction
           /\ call[p] # NoCall => job[p] = NoJob \/ job[p].what \in {"import", "export"}
           /\ CallOK(p) /\ TransactionOK(p) /\ OwedOK(p) /\ FreshOK(p) /\ ImportOK(p)
<1>1. TypeOK /\ SharedOK /\ ImportsOK  BY DEF IInv
<1>2. /\ call[p] \in CallType /\ txn[p] \in TransactionType /\ conn[p] \in ConnType
      /\ outcome[p] \in {"ok", "failed"}
      /\ table \subseteq Rows /\ schema \in BOOLEAN
      /\ nextId \in Nat /\ nextId \in 1..(MaxRows + 1)
      /\ file \in [Files -> [readable : BOOLEAN, items : Seq(Items)]]
      /\ losses \in 0..MaxLosses
    BY <1>1 DEF TypeOK, CallType, TransactionType, ConnType
<1>3. job \in [Procs -> JobType]  BY <1>1 DEF TypeOK, JobType
<1>4. /\ call[p] = NoCall <=> call[p].phase = "none"
      /\ txn[p].open => conn[p] = "open" /\ call[p].phase \in {"waiting", "executed"}
      /\ ~txn[p].open => txn[p] = NoTransaction
      /\ call[p] # NoCall => job[p] = NoJob \/ job[p].what \in {"import", "export"}
    BY <1>1 DEF TypeOK, Working
<1>5. CallOK(p) /\ TransactionOK(p) /\ OwedOK(p) /\ FreshOK(p) /\ ImportOK(p)
    BY <1>1 DEF SharedOK, ProcessOK, ImportsOK
<1>6. QED  BY <1>1, <1>2, <1>3, <1>4, <1>5

\* p is idle after the step, and what its transaction has done is committed or
\* forgotten.
LEMMA IdleKeeps ==
    ASSUME IInv, NEW p \in Procs, NEW n \in ConnType, NEW o \in {"ok", "failed"},
           Step(p, NoCall, NoTransaction, n, o),
           table' \subseteq table \cup txn[p].adds, table' \subseteq Rows,
           schema' \in BOOLEAN, nextId' = nextId,
           file' \in [Files -> [readable : BOOLEAN, items : Seq(Items)]],
           losses' \in 0..MaxLosses,
           job' \in [Procs -> JobType], OthersWork(p), ImportOK(p)'
    PROVE  IInv'
<1>1. call'[p] = NoCall /\ txn'[p] = NoTransaction  BY Facts, StepFacts
<1>2. TypeOK'
    <2>1. TypeOK /\ nextId' \in 1..(MaxRows + 1)  BY Facts
    <2>2. NoCall = NoCall <=> NoCall.phase = "none"  BY Nothing
    <2>3. QED  BY <2>1, <2>2, Nothing, TypeKeeps DEF ConnType
<1>3. ProcessOK(p)'
    BY <1>1, Nothing, Kinds DEF ProcessOK, CallOK, TransactionOK, OwedOK, FreshOK
<1>4. SharedOK'
    <2>1. nextId' \in Nat /\ nextId' >= nextId  BY Facts
    <2>2. QED  BY <1>3, <2>1, Facts, Nothing, SharedKeeps
<1>5. ImportsOK'  BY Facts, ImportsKeep
<1>6. QED  BY <1>2, <1>4, <1>5 DEF IInv

LEMMA JobEnded ==
    ASSUME IInv, NEW p \in Procs, JobEnds(p)
    PROVE  /\ job' \in [Procs -> JobType] /\ OthersWork(p)
           /\ job'[p] = NoJob /\ ImportOK(p)'
<1>1. job' \in [Procs -> JobType] /\ job'[p] = NoJob /\ \A q \in Procs \ {p} : job'[q] = job[q]
    BY Facts, Nothing DEF JobEnds
<1>2. QED  BY <1>1, Nothing DEF OthersWork, ImportOK

LEMMA ThrowsKeeps ==
    ASSUME IInv, NEW p \in Procs, NEW n \in ConnType, Throws(p, n), call[p] # NoCall,
           UNCHANGED <<server, file, losses>>
    PROVE  IInv' /\ Refines
<1>1. /\ Step(p, NoCall, NoTransaction, n, "failed") /\ JobEnds(p)
      /\ UNCHANGED <<table, schema, nextId, file, losses>>
    BY DEF Throws, Step, server
<1>2. IInv'  BY <1>1, Facts, JobEnded, IdleKeeps
<1>3. Contract!Return(p) \/ Contract!Throw(p)  BY <1>1, Facts, EndRefines
<1>4. QED  BY <1>2, <1>3 DEF Refines, Contract!Next

LEMMA ConnectFailsKeeps ==
    ASSUME IInv, NEW p \in Procs, ConnectFails(p)
    PROVE  IInv' /\ Refines
<1>1. call[p] # NoCall  BY Facts DEF ConnectFails, In
<1>2. QED  BY <1>1, ThrowsKeeps DEF ConnectFails, ConnType

LEMMA SendFailsKeeps ==
    ASSUME IInv, NEW p \in Procs, SendFails(p)
    PROVE  IInv' /\ Refines
<1>1. call[p] # NoCall  BY Facts DEF SendFails, Reaches, In
<1>2. QED  BY <1>1, ThrowsKeeps DEF SendFails, ConnType

LEMMA BrokenConnectionKeeps ==
    ASSUME IInv, NEW p \in Procs, BrokenConnection(p)
    PROVE  IInv' /\ Refines
BY ThrowsKeeps DEF BrokenConnection, ConnType

LEMMA CrashKeeps ==
    ASSUME IInv, NEW p \in Procs, Crash(p)
    PROVE  IInv' /\ Refines
<1> DEFINE o == IF call[p] = NoCall THEN outcome[p] ELSE "failed"
<1>1. /\ Step(p, NoCall, NoTransaction, "closed", o) /\ JobEnds(p)
      /\ UNCHANGED <<table, schema, nextId, file, losses>>
    BY DEF Crash, Step, server
<1>2. o \in {"ok", "failed"}  BY Facts
<1>3. IInv'  BY <1>1, <1>2, Facts, JobEnded, IdleKeeps DEF ConnType
<1>4. CASE call[p] = NoCall
    <2>1. Step(p, NoCall, NoTransaction, "closed", outcome[p])  BY <1>1, <1>4
    <2>2. TypeOK /\ NoCall.op = call[p].op /\ NoCall.there = call[p].there /\ UNCHANGED table
        BY <1>1, <1>4, Facts
    <2>3. UNCHANGED <<table, Pending, outcome>>  BY <2>1, <2>2, QuietRefines
    <2>4. QED  BY <1>3, <2>3 DEF Refines
<1>5. CASE call[p] # NoCall
    <2>1. Step(p, NoCall, NoTransaction, "closed", "failed")  BY <1>1, <1>5
    <2>2. TypeOK /\ SharedOK /\ UNCHANGED table  BY <1>1, Facts
    <2>3. Contract!Return(p) \/ Contract!Throw(p)  BY <1>5, <2>1, <2>2, EndRefines
    <2>4. QED  BY <1>3, <2>3 DEF Refines, Contract!Next
<1>6. QED  BY <1>3, <1>4, <1>5

\* A call begins, alone or as a part of a job.
LEMMA CallsKeep ==
    ASSUME IInv, NEW p \in Procs, NEW op \in Ops, Calls(p, op), call[p] = NoCall,
           UNCHANGED <<server, conn, txn, file, losses>>,
           job' \in [Procs -> JobType], OthersWork(p), ImportOK(p)',
           job'[p] = NoJob \/ job'[p].what \in {"import", "export"}
    PROVE  IInv' /\ Refines
<1>1. /\ txn[p] = NoTransaction /\ call[p].phase = "none" /\ call[p].there = {}
      /\ TypeOK /\ SharedOK /\ table \subseteq Rows
    BY Facts, Nothing
<1>2. /\ Step(p, Calling(op), NoTransaction, conn[p], "ok")
      /\ UNCHANGED <<table, schema, nextId, file, losses>>
    BY <1>1 DEF Calls, Step, server, TypeOK
<1>3. /\ Calling(op) \in CallType /\ Calling(op) # NoCall
      /\ Calling(op).op = op /\ Calling(op).there = Found(op, table)
      /\ Calling(op).phase = "called"
    BY <1>1, CallingFacts
<1>4. TypeOK'
    <2>1. /\ Calling(op) = NoCall <=> Calling(op).phase = "none"
          /\ ~NoTransaction.open /\ conn[p] \in {"closed", "open", "stale"}
        BY <1>3, Facts, Nothing DEF ConnType
    <2>2. /\ table' \subseteq Rows /\ schema' \in BOOLEAN /\ nextId' \in 1..(MaxRows + 1)
          /\ file' \in [Files -> [readable : BOOLEAN, items : Seq(Items)]]
          /\ losses' \in 0..MaxLosses
        BY <1>2, Facts
    <2>3. QED  BY <1>1, <1>2, <1>3, <2>1, <2>2, Nothing, TypeKeeps
<1>5. ProcessOK(p)'
    <2>1. call'[p] = Calling(op) /\ txn'[p] = NoTransaction  BY <1>1, <1>2, StepFacts
    <2>2. Found(op, table) \subseteq table /\ Found(op, table) \subseteq Found(op, Rows)
        BY <1>1, FoundFacts
    <2>3. \A r \in Found(op, table) : r.id < nextId  BY <1>1, <2>2 DEF SharedOK
    <2>4. QED
        BY <1>2, <1>3, <2>1, <2>2, <2>3, Nothing
        DEF ProcessOK, CallOK, TransactionOK, OwedOK, FreshOK
<1>6. SharedOK'
    <2>1. nextId' \in Nat /\ nextId' >= nextId  BY <1>2, Facts
    <2>2. /\ table' \subseteq table \cup txn[p].adds
          /\ NoTransaction.adds \subseteq txn[p].adds
          /\ Calling(op).there \subseteq call[p].there \cup table
          /\ NoTransaction.adds \cap Calling(op).there = {}
        BY <1>1, <1>2, <1>3, FoundFacts, Nothing
    <2>3. QED  BY <1>1, <1>2, <1>5, <2>1, <2>2, SharedKeeps
<1>7. ImportsOK'  BY <1>2, Facts, ImportsKeep
<1>8. Contract!Begin(p)  BY <1>1, <1>2, BeginRefines
<1>9. QED  BY <1>4, <1>6, <1>7, <1>8 DEF IInv, Refines, Contract!Next

\* A step of a job that calls nothing.
LEMMA JobKeeps ==
    ASSUME IInv, NEW p \in Procs, UNCHANGED <<server, conn, txn, call, outcome, losses>>,
           file' \in [Files -> [readable : BOOLEAN, items : Seq(Items)]],
           job' \in [Procs -> JobType], OthersWork(p), ImportOK(p)',
           call[p] # NoCall => job'[p] = NoJob \/ job'[p].what \in {"import", "export"}
    PROVE  IInv' /\ Refines
<1>1. /\ Step(p, call[p], txn[p], conn[p], outcome[p])
      /\ UNCHANGED <<table, schema, nextId, losses>>
    BY Facts DEF Step, server, TypeOK
<1>2. TypeOK'
    <2>1. /\ TypeOK /\ call[p] \in CallType /\ txn[p] \in TransactionType
          /\ conn[p] \in {"closed", "open", "stale"} /\ outcome[p] \in {"ok", "failed"}
          /\ call[p] = NoCall <=> call[p].phase = "none"
          /\ txn[p].open => conn[p] = "open" /\ call[p].phase \in {"waiting", "executed"}
          /\ ~txn[p].open => txn[p] = NoTransaction
        BY Facts DEF ConnType
    <2>2. /\ table' \subseteq Rows /\ schema' \in BOOLEAN /\ nextId' \in 1..(MaxRows + 1)
          /\ losses' \in 0..MaxLosses
        BY <1>1, Facts
    <2>3. QED  BY <1>1, <2>1, <2>2, TypeKeeps
<1>3. SharedOK'
    BY <1>1, Facts
    DEF SharedOK, ProcessOK, CallOK, TransactionOK, OwedOK, FreshOK, Apart
<1>4. ImportsOK'  BY <1>1, Facts, ImportsKeep
<1>5. UNCHANGED <<table, Pending, outcome>>  BY <1>1 DEF Pending
<1>6. QED  BY <1>2, <1>3, <1>4, <1>5 DEF IInv, Refines

LEMMA JobUpdates ==
    ASSUME NEW j \in JobType
    PROVE  /\ [j EXCEPT !.alone = FALSE] \in JobType
           /\ \A f \in Files : /\ [j EXCEPT !.what = "write", !.into = f] \in JobType
                              /\ [j EXCEPT !.what = "write", !.into = f].what = "write"
<1>1. [j EXCEPT !.alone = FALSE] \in JobType  BY DEF JobType
<1>2. ASSUME NEW f \in Files
      PROVE  /\ [j EXCEPT !.what = "write", !.into = f] \in JobType
             /\ [j EXCEPT !.what = "write", !.into = f].what = "write"
    BY DEF JobType
<1>3. QED  BY <1>1, <1>2

LEMMA JobChanges ==
    ASSUME IInv, NEW p \in Procs, NEW new \in JobType, job' = [job EXCEPT ![p] = new]
    PROVE  job' \in [Procs -> JobType] /\ OthersWork(p) /\ job'[p] = new
BY Facts DEF OthersWork

LEMMA FreeFacts ==
    ASSUME IInv, NEW p \in Procs, Free(p)
    PROVE  call[p] = NoCall /\ job[p] = NoJob /\ NoOp \notin Inserts /\ call[p].op = NoOp
BY Kinds, Nothing DEF Free, Working

LEMMA CallKeeps ==
    ASSUME IInv, NEW p \in Procs, Call(p)
    PROVE  IInv' /\ Refines
<1>1. PICK op \in OpsOf[p] : Calls(p, op)  BY DEF Call
<1>2. op \in Ops  BY DatabaseAssumption
<1>3. /\ Free(p) /\ UNCHANGED <<server, conn, txn, file, losses>> /\ job' = job
    BY DEF Call
<1>4. /\ job' \in [Procs -> JobType] /\ OthersWork(p) /\ job'[p] = NoJob
      /\ ImportOK(p)' /\ call[p] = NoCall
    BY <1>3, Facts, FreeFacts, Nothing DEF OthersWork, ImportOK
<1>5. QED  BY <1>1, <1>2, <1>3, <1>4, CallsKeep

\* An import starts at the first item.
LEMMA ImportKeeps ==
    ASSUME IInv, NEW p \in Procs, Import(p)
    PROVE  IInv' /\ Refines
<1> USE DEF JobType
<1>1. /\ Free(p) /\ UNCHANGED <<server, conn, txn, file, losses>>
      /\ call[p] = NoCall /\ job[p] = NoJob /\ call[p].op \notin Inserts
    BY FreeFacts DEF Import
<1>2. PICK f \in Files, clear \in BOOLEAN :
           IF file[f].readable
           THEN /\ job' = [job EXCEPT ![p] = [Job("import") EXCEPT
                             !.items = file[f].items, !.clear = clear]]
                /\ IF clear
                   THEN Calls(p, Op("clear", "any"))
                   ELSE UNCHANGED <<call, outcome>>
           ELSE JobEnds(p) /\ UNCHANGED <<call, outcome>>
    BY DEF Import
<1>3. file[f].items \in Seq(Items) /\ <<>> \in Seq(Items)
    BY Facts, EmptySeq
<1>4. CASE file[f].readable
    <2> DEFINE new == [Job("import") EXCEPT !.items = file[f].items, !.clear = clear]
    <2>1. job' = [job EXCEPT ![p] = new]  BY <1>2, <1>4
    <2>2. /\ new \in JobType /\ new.what = "import" /\ new.next = 1
          /\ new.items = file[f].items
        BY <1>3 DEF Job
    <2> HIDE DEF new
    <2>3. /\ job' \in [Procs -> JobType] /\ OthersWork(p) /\ job'[p] = new
        BY <2>1, <2>2, Facts DEF OthersWork
    <2>4. ASSUME call'[p].op \notin Inserts PROVE ImportOK(p)'
        <3>1. Len(new.items) \in Nat  BY <1>3, <2>2, LenProperties
        <3>2. QED  BY <2>2, <2>3, <2>4, <3>1 DEF ImportOK, Done
    <2>5. CASE clear
        <3> DEFINE op == Op("clear", "any")
        <3>1. Calls(p, op) /\ op \in Ops /\ op \notin Inserts
            <4>1. op \in Deletes  BY DEF Deletes
            <4>2. QED  BY <1>2, <1>4, <2>5, <4>1, Kinds DEF Ops
        <3>2. call'[p] = Calling(op)  BY <3>1, Facts DEF Calls, TypeOK
        <3>3. ImportOK(p)'  BY <2>4, <3>1, <3>2, Facts, CallingFacts
        <3> HIDE DEF op
        <3>4. QED  BY <1>1, <2>2, <2>3, <3>1, <3>3, CallsKeep
    <2>6. CASE ~clear
        <3>1. UNCHANGED <<call, outcome>>  BY <1>2, <1>4, <2>6
        <3>2. ImportOK(p)'  BY <1>1, <2>4, <3>1
        <3>3. file' \in [Files -> [readable : BOOLEAN, items : Seq(Items)]]  BY <1>1, Facts
        <3>4. QED  BY <1>1, <2>2, <2>3, <3>1, <3>2, <3>3, JobKeeps
    <2>7. QED  BY <2>5, <2>6
<1>5. CASE ~file[f].readable
    <2>1. JobEnds(p) /\ UNCHANGED <<call, outcome>>  BY <1>2, <1>5
    <2>2. file' \in [Files -> [readable : BOOLEAN, items : Seq(Items)]]  BY <1>1, Facts
    <2>3. QED  BY <1>1, <2>1, <2>2, JobEnded, JobKeeps
<1>6. QED  BY <1>4, <1>5

LEMMA ImportItemKeeps ==
    ASSUME IInv, NEW p \in Procs, ImportItem(p)
    PROVE  IInv' /\ Refines
<1> DEFINE item == job[p].items[job[p].next]
<1>1. /\ job[p].what = "import" /\ call[p] = NoCall /\ call[p].op \notin Inserts
      /\ job[p].next <= Len(job[p].items)
      /\ UNCHANGED <<server, conn, txn, file, losses>>
    BY Kinds, Nothing DEF ImportItem, Importing
<1>2. /\ job[p] \in JobType /\ job[p].items \in Seq(Items) /\ Len(job[p].items) \in Nat
      /\ job[p].next \in 1..Len(job[p].items)
    <2>1. job[p] \in JobType /\ job[p].items \in Seq(Items) /\ job[p].next \in Nat
        BY Facts DEF JobType
    <2>2. job[p].next - 1 \in 0..Len(job[p].items)  BY <1>1, Facts DEF ImportOK, Done
    <2>3. Len(job[p].items) \in Nat  BY <2>1, LenProperties
    <2>4. QED  BY <1>1, <2>1, <2>2, <2>3
<1>3. item \in Items  BY <1>2, ElementOfSeq
<1>4. CASE item = Mistyped
    <2>1. JobEnds(p) /\ UNCHANGED <<call, outcome>>  BY <1>4 DEF ImportItem
    <2>2. file' \in [Files -> [readable : BOOLEAN, items : Seq(Items)]]  BY <1>1, Facts
    <2>3. QED  BY <1>1, <2>1, <2>2, JobEnded, JobKeeps
<1>5. CASE item # Mistyped
    <2> DEFINE op == Op("insert", item)
    <2>1. Calls(p, op) /\ job' = [job EXCEPT ![p].next = @ + 1]  BY <1>5 DEF ImportItem
    <2>2. op \in Inserts /\ op \in Ops /\ op.arg = item
        BY <1>3, <1>5 DEF Items, Inserts, Ops, Op
    <2>3. /\ job' \in [Procs -> JobType] /\ OthersWork(p)
          /\ job'[p] = [job[p] EXCEPT !.next = job[p].next + 1]
        <3> DEFINE new == [job[p] EXCEPT !.next = job[p].next + 1]
        <3>1. job' = [job EXCEPT ![p] = new]  BY <2>1
        <3>2. new \in JobType
            <4>1. job[p] \in JobType /\ job[p].next + 1 \in Nat  BY <1>2
            <4>2. QED  BY <4>1 DEF JobType
        <3> HIDE DEF new
        <3>3. job' \in [Procs -> JobType] /\ OthersWork(p) /\ job'[p] = new
            BY <3>1, <3>2, JobChanges
        <3>4. QED  BY <3>3 DEF new
    <2>4. /\ job'[p].what = "import" /\ job'[p].items = job[p].items
          /\ job'[p].next = job[p].next + 1
        BY <1>1, <1>2, <2>3 DEF JobType
    <2>5. call'[p].op = op
        <3>1. call'[p] = Calling(op)  BY <2>1, Facts DEF Calls, TypeOK
        <3>2. TypeOK /\ op \in Ops  BY <2>2, Facts
        <3>3. Calling(op).op = op  BY <3>2, CallingFacts
        <3>4. QED  BY <3>1, <3>3
    <2> HIDE DEF op
    <2>6. ImportOK(p)'
        <3>1. call'[p].op \in Inserts /\ job'[p].next - 2 = job[p].next - 1
            BY <1>2, <2>2, <2>4, <2>5
        <3>2. Done(p)' = job[p].next - 1  BY <3>1 DEF Done
        <3>3. /\ job[p].next - 1 \in 0..Len(job[p].items)
              /\ (job[p].next - 1) + 1 = job[p].next
            <4>1. job[p].next \in 1..Len(job[p].items) /\ Len(job[p].items) \in Nat
                BY <1>2
            <4>2. QED  BY <4>1
        <3>4. call'[p].op.arg = job'[p].items[(job[p].next - 1) + 1]
            BY <2>2, <2>4, <2>5, <3>3 DEF item
        <3>5. QED  BY <1>2, <2>4, <3>2, <3>3, <3>4 DEF ImportOK
    <2>7. QED  BY <1>1, <2>1, <2>2, <2>3, <2>4, <2>6, CallsKeep
<1>6. QED  BY <1>4, <1>5

LEMMA ImportedKeeps ==
    ASSUME IInv, NEW p \in Procs, Imported(p)
    PROVE  IInv' /\ Refines
<1>1. JobEnds(p) /\ UNCHANGED <<server, conn, txn, call, outcome, file, losses>>
    BY DEF Imported
<1>2. file' \in [Files -> [readable : BOOLEAN, items : Seq(Items)]]  BY <1>1, Facts
<1>3. QED  BY <1>1, <1>2, JobEnded, JobKeeps

LEMMA ExportKeeps ==
    ASSUME IInv, NEW p \in Procs, Export(p)
    PROVE  IInv' /\ Refines
<1> DEFINE op == Op("read", "any")
<1>1. /\ Free(p) /\ call[p] = NoCall /\ Calls(p, op)
      /\ job' = [job EXCEPT ![p] = Job("export")]
      /\ UNCHANGED <<server, conn, txn, file, losses>>
    BY FreeFacts DEF Export
<1>2. op \in Ops  BY DEF Ops, Reads
<1>3. Job("export") \in JobType /\ Job("export").what = "export"
    BY EmptySeq DEF Job, JobType
<1>4. /\ job' \in [Procs -> JobType] /\ OthersWork(p) /\ job'[p].what = "export"
      /\ ImportOK(p)'
    BY <1>1, <1>3, Facts DEF OthersWork, ImportOK
<1> HIDE DEF op
<1>5. QED  BY <1>1, <1>2, <1>4, CallsKeep

LEMMA TruncateKeeps ==
    ASSUME IInv, NEW p \in Procs, Truncate(p)
    PROVE  IInv' /\ Refines
<1>1. /\ job[p].what = "open" /\ call[p] = NoCall
      /\ UNCHANGED <<server, conn, txn, call, outcome, losses>>
    BY Facts, Nothing DEF Truncate
<1>2. CASE JobEnds(p) /\ UNCHANGED file
    <2>1. file' \in [Files -> [readable : BOOLEAN, items : Seq(Items)]]  BY <1>2, Facts
    <2>2. QED  BY <1>1, <1>2, <2>1, JobEnded, JobKeeps
<1>3. ASSUME NEW f \in Targets,
             file' = [file EXCEPT ![f] = Contents(FALSE, <<>>)],
             job' = [job EXCEPT ![p].what = "write", ![p].into = f]
      PROVE  IInv' /\ Refines
    <2>1. f \in Files  BY DatabaseAssumption
    <2>2. file' \in [Files -> [readable : BOOLEAN, items : Seq(Items)]]
        <3>1. Contents(FALSE, <<>>) \in [readable : BOOLEAN, items : Seq(Items)]
            BY EmptySeq DEF Contents
        <3>2. QED  BY <1>3, <3>1, Facts
    <2>3. /\ job' \in [Procs -> JobType] /\ OthersWork(p) /\ job'[p].what = "write"
        <3> DEFINE new == [job[p] EXCEPT !.what = "write", !.into = f]
        <3>1. job' = [job EXCEPT ![p] = new]
            <4>1. job' = [job EXCEPT ![p].what = "write", ![p].into = f]  BY <1>3, Zenon
            <4>2. job \in [Procs -> JobType]  BY Facts
            <4>3. job[p] \in JobType  BY <4>2
            <4>4. QED  BY <4>1, <4>2, <4>3 DEF JobType
        <3>2. new \in JobType /\ new.what = "write"
            <4>1. job[p] \in JobType  BY Facts
            <4>2. QED  BY <2>1, <4>1, JobUpdates
        <3> HIDE DEF new
        <3>3. QED  BY <3>1, <3>2, JobChanges
    <2>4. ImportOK(p)'  BY <2>3 DEF ImportOK
    <2>5. QED  BY <1>1, <2>2, <2>3, <2>4, JobKeeps
<1>4. QED  BY <1>2, <1>3 DEF Truncate

LEMMA WriteKeeps ==
    ASSUME IInv, NEW p \in Procs, Write(p)
    PROVE  IInv' /\ Refines
<1>1. JobEnds(p) /\ UNCHANGED <<server, conn, txn, call, outcome, losses>>
    BY DEF Write
<1>2. file' \in [Files -> [readable : BOOLEAN, items : Seq(Items)]]
    <2>1. job[p].items \in Seq(Items)  BY Facts DEF JobType
    <2>2. Contents(TRUE, job[p].items) \in [readable : BOOLEAN, items : Seq(Items)]
        BY <2>1 DEF Contents
    <2>3. QED  BY <2>2, Facts DEF Write
<1>3. QED  BY <1>1, <1>2, JobEnded, JobKeeps

LEMMA LoseKeeps ==
    ASSUME IInv, NEW p \in Procs, Lose(p)
    PROVE  IInv' /\ Refines
<1>1. /\ Step(p, call[p], NoTransaction, "stale", outcome[p])
      /\ UNCHANGED <<table, schema, nextId, job, file>>
    BY Facts DEF Lose, Step, server, TypeOK
<1>2. losses' \in 0..MaxLosses  BY Facts, DatabaseAssumption DEF Lose
<1>3. TypeOK'
    <2>1. /\ TypeOK /\ call[p] \in CallType /\ outcome[p] \in {"ok", "failed"}
          /\ call[p] = NoCall <=> call[p].phase = "none"
          /\ call[p] # NoCall => job'[p] = NoJob \/ job'[p].what \in {"import", "export"}
          /\ OthersWork(p) /\ job' \in [Procs -> JobType]
        BY <1>1, Facts DEF OthersWork
    <2>2. /\ table' \subseteq Rows /\ schema' \in BOOLEAN /\ nextId' \in 1..(MaxRows + 1)
          /\ file' \in [Files -> [readable : BOOLEAN, items : Seq(Items)]]
        BY <1>1, Facts
    <2>3. QED  BY <1>1, <1>2, <2>1, <2>2, Nothing, TypeKeeps
<1>4. call'[p] = call[p] /\ txn'[p] = NoTransaction /\ conn'[p] = "stale"
    BY <1>1, Facts, StepFacts
<1>5. ProcessOK(p)'
    <2>1. CallOK(p) /\ FreshOK(p)  BY Facts
    <2>2. QED
        BY <1>1, <1>4, <2>1, Nothing
        DEF ProcessOK, CallOK, TransactionOK, OwedOK, FreshOK
<1>6. SharedOK'
    <2>1. nextId' \in Nat /\ nextId' >= nextId  BY <1>1, Facts
    <2>2. TypeOK /\ SharedOK  BY Facts
    <2>3. QED  BY <1>1, <1>5, <2>1, <2>2, Nothing, SharedKeeps
<1>7. ImportsOK'
    <2>1. ImportOK(p) /\ TypeOK /\ ImportsOK  BY Facts
    <2>2. ImportOK(p)' /\ OthersWork(p)  BY <1>1, <1>4, <2>1, ImportStays DEF OthersWork
    <2>3. QED  BY <1>1, <2>1, <2>2, ImportsKeep
<1>8. UNCHANGED <<table, Pending, outcome>>  BY <1>1, Facts, QuietRefines
<1>9. QED  BY <1>3, <1>6, <1>7, <1>8 DEF IInv, Refines

-----------------------------------------------------------------------------
(* Statements and commits. *)

\* The statements before a commit change nothing that the contract sees.
LEMMA StatementKeeps ==
    ASSUME IInv, NEW p \in Procs, NEW c \in CallType, NEW t \in TransactionType,
           Step(p, c, t, "open", outcome[p]), c.op = call[p].op, c.there = call[p].there,
           call[p] # NoCall, c.phase \in {"waiting", "executed"}, t.open,
           nextId' \in 1..(MaxRows + 1), nextId' >= nextId,
           UNCHANGED <<table, schema, job, file, losses>>,
           t.adds = {} \/ \E r \in Rows : r.id = nextId /\ t.adds = {r} /\ nextId' = nextId + 1,
           ProcessOK(p)'
    PROVE  IInv' /\ Refines
<1>1. /\ TypeOK /\ SharedOK /\ ImportsOK /\ ImportOK(p) /\ CallOK(p) /\ FreshOK(p)
      /\ outcome[p] \in {"ok", "failed"}
      /\ job \in [Procs -> JobType] /\ nextId \in Nat
      /\ job[p] = NoJob \/ job[p].what \in {"import", "export"}
      /\ c # NoCall /\ OthersWork(p)
    BY Facts, Nothing DEF OthersWork
<1>2. TypeOK'
    <2>1. /\ table' \subseteq Rows /\ schema' \in BOOLEAN
          /\ file' \in [Files -> [readable : BOOLEAN, items : Seq(Items)]]
          /\ losses' \in 0..MaxLosses
        BY Facts
    <2>2. (c = NoCall <=> c.phase = "none") /\ c.phase # "none"  BY <1>1
    <2>3. QED  BY <1>1, <2>1, <2>2, TypeKeeps
<1>3. SharedOK'
    <2>1. nextId' \in Nat  BY <1>1
    <2>2. t.adds \subseteq txn[p].adds \/ \A r \in t.adds : r.id = nextId
        OBVIOUS
    <2>3. t.adds \cap c.there = {}
        BY <1>1 DEF FreshOK
    <2>4. QED  BY <1>1, <2>1, <2>2, <2>3, SharedKeeps
<1>4. ImportsOK'
    <2>1. call'[p] = c  BY <1>1, StepFacts
    <2>2. ImportOK(p)'  BY <1>1, <2>1, ImportStays
    <2>3. QED  BY <1>1, <2>2, ImportsKeep
<1>5. UNCHANGED <<table, Pending, outcome>>  BY <1>1, QuietRefines
<1>6. QED  BY <1>2, <1>3, <1>4, <1>5 DEF IInv, Refines

\* p has called an operation, and its first statement is sent.
LEMMA ReachesFacts ==
    ASSUME IInv, NEW p \in Procs, Reaches(p)
    PROVE  /\ call[p] # NoCall /\ call[p].phase = "called" /\ call[p].op \in Ops
           /\ txn[p] = NoTransaction /\ conn' = [conn EXCEPT ![p] = "open"]
           /\ \A x : x \in {"waiting", "executed"} =>
                 /\ [call[p] EXCEPT !.phase = x] \in CallType
                 /\ [call[p] EXCEPT !.phase = x].phase = x
                 /\ [call[p] EXCEPT !.phase = x].op = call[p].op
                 /\ [call[p] EXCEPT !.phase = x].there = call[p].there
<1>1. call[p].phase = "called" /\ conn' = [conn EXCEPT ![p] = "open"]
    BY DEF Reaches, In, EnsureConnected
<1>2. call[p] \in CallType /\ call[p] # NoCall /\ call[p].op \in Ops /\ txn[p] = NoTransaction
    BY <1>1, Facts DEF CallOK
<1>3. QED  BY <1>1, <1>2 DEF CallType

LEMMA SendInsertKeeps ==
    ASSUME IInv, NEW p \in Procs, SendInsert(p)
    PROVE  IInv' /\ Refines
<1> DEFINE c == [call[p] EXCEPT !.phase = "executed"]
           r == [id |-> nextId, char |-> call[p].op.arg]
           t == Transaction({r}, {}, FALSE)
<1>1. /\ Reaches(p) /\ call[p].op \in Inserts /\ nextId <= MaxRows
      /\ call' = [call EXCEPT ![p] = c] /\ txn' = [txn EXCEPT ![p] = t]
      /\ nextId' = nextId + 1
      /\ UNCHANGED <<table, schema, outcome, job, file, losses>>
    BY DEF SendInsert
<1>2. /\ nextId \in Nat \ {0} /\ MaxRows \in Nat /\ TypeOK /\ SharedOK
      /\ call[p].there = {} /\ \A x \in table : x.id < nextId
    <2>1. nextId \in 1..(MaxRows + 1) /\ call[p].there \subseteq Found(call[p].op, Rows)
        BY Facts DEF CallOK
    <2>2. Found(call[p].op, Rows) = {}  BY <1>1, Kinds, FoundFacts DEF Ops
    <2>3. TypeOK /\ SharedOK /\ MaxRows \in Nat  BY Facts, CharacteristicsAssumption
    <2>4. QED  BY <2>1, <2>2, <2>3 DEF SharedOK
<1>3. r \in Rows /\ r.id = nextId /\ r.char = call[p].op.arg
    BY <1>1, <1>2 DEF Rows, Inserts, Op
<1>4. /\ t \in TransactionType /\ t.open /\ t.adds = {r} /\ t.dels = {} /\ ~t.drops
    BY <1>3 DEF Transaction, TransactionType
<1>5. /\ call[p] # NoCall /\ call[p].op \in Ops /\ conn' = [conn EXCEPT ![p] = "open"]
      /\ c \in CallType /\ c.phase = "executed" /\ c.op = call[p].op /\ c.there = call[p].there
    BY <1>1, ReachesFacts
<1> HIDE DEF c, r, t
<1>6. Step(p, c, t, "open", outcome[p])
    BY <1>1, <1>2, <1>5 DEF Step, TypeOK
<1>7. ProcessOK(p)'
    <2>1. call'[p] = c /\ txn'[p] = t /\ conn'[p] = "open"  BY <1>2, <1>6, StepFacts
    <2>2. call[p].op \notin Reads \cup Deletes \cup {Initialize}  BY <1>1, Kinds
    <2>3. CallOK(p)' /\ TransactionOK(p)' /\ OwedOK(p)'
        BY <1>1, <1>2, <1>3, <1>4, <1>5, <2>1, <2>2 DEF CallOK, TransactionOK, OwedOK
    <2>4. FreshOK(p)'
        <3>1. r \notin table /\ r.id < nextId'  BY <1>1, <1>2, <1>3
        <3>2. QED  BY <1>1, <1>2, <1>4, <1>5, <2>1, <3>1 DEF FreshOK
    <2>5. QED  BY <2>3, <2>4 DEF ProcessOK
<1>8. nextId' \in 1..(MaxRows + 1) /\ nextId' >= nextId  BY <1>1, <1>2
<1>9. QED  BY <1>1, <1>3, <1>4, <1>5, <1>6, <1>7, <1>8, StatementKeeps

LEMMA SendDeleteKeeps ==
    ASSUME IInv, NEW p \in Procs, SendDelete(p)
    PROVE  IInv' /\ Refines
<1> DEFINE c == [call[p] EXCEPT !.phase = "waiting", !.seen = table]
           t == Transaction({}, {}, FALSE)
<1>1. /\ Reaches(p) /\ call[p].op \in Deletes
      /\ call' = [call EXCEPT ![p] = c] /\ txn' = [txn EXCEPT ![p] = t]
      /\ UNCHANGED <<table, schema, nextId, outcome, job, file, losses>>
    BY DEF SendDelete, server
<1>2. /\ call[p] # NoCall /\ call[p] \in CallType /\ conn' = [conn EXCEPT ![p] = "open"]
      /\ TypeOK /\ table \subseteq Rows /\ nextId \in 1..(MaxRows + 1)
      /\ CallOK(p) /\ FreshOK(p)
    BY <1>1, ReachesFacts, Facts
<1>3. /\ c \in CallType /\ c.phase = "waiting" /\ c.op = call[p].op /\ c.there = call[p].there
      /\ c.seen = table
    BY <1>2 DEF CallType
<1>4. t \in TransactionType /\ t.open /\ t.adds = {} /\ t.dels = {} /\ ~t.drops
    BY DEF Transaction, TransactionType
<1> HIDE DEF c, t
<1>5. Step(p, c, t, "open", outcome[p])  BY <1>1, <1>2 DEF Step, TypeOK
<1>6. ProcessOK(p)'
    <2>1. call'[p] = c /\ txn'[p] = t /\ conn'[p] = "open"  BY <1>2, <1>5, StepFacts
    <2>2. call[p].op \notin Reads \cup Inserts \cup {Initialize}  BY <1>1, Kinds
    <2>3. QED
        BY <1>1, <1>2, <1>3, <1>4, <2>1, <2>2
        DEF ProcessOK, CallOK, TransactionOK, OwedOK, FreshOK
<1>7. nextId' \in 1..(MaxRows + 1) /\ nextId' >= nextId  BY <1>1, <1>2
<1>8. QED  BY <1>1, <1>2, <1>3, <1>4, <1>5, <1>6, <1>7, StatementKeeps

\* The rows that are locked are the matching ones among those seen and still
\* there: the owed ones among them.
LEMMA DeleteKeeps ==
    ASSUME IInv, NEW p \in Procs, Delete(p)
    PROVE  IInv' /\ Refines
<1> DEFINE found == Found(call[p].op, call[p].seen \cap table)
           c == [call[p] EXCEPT !.phase = "executed", !.seen = {}]
           t == [txn[p] EXCEPT !.dels = found]
<1>1. /\ call[p].phase = "waiting" /\ conn[p] = "open"
      /\ call' = [call EXCEPT ![p] = c] /\ txn' = [txn EXCEPT ![p] = t]
      /\ UNCHANGED <<table, schema, nextId, conn, outcome, job, file, losses>>
    BY DEF Delete, In, server
<1>2. /\ call[p] # NoCall /\ call[p] \in CallType /\ txn[p] \in TransactionType
      /\ TypeOK /\ table \subseteq Rows /\ nextId \in 1..(MaxRows + 1)
      /\ CallOK(p) /\ FreshOK(p) /\ TransactionOK(p) /\ OwedOK(p)
      /\ txn[p].open
    BY <1>1, Facts DEF CallOK
<1>3. /\ call[p].op \in Deletes
      /\ call[p].op \notin Reads \cup Inserts \cup {Initialize}
    BY <1>1, <1>2, Kinds DEF CallOK
<1>4. /\ found \subseteq table /\ found \subseteq Rows /\ found \subseteq Found(call[p].op, Rows)
      /\ call[p].there \cap table \subseteq found
    <2>1. found \subseteq call[p].seen \cap table /\ found \subseteq Rows
        BY <1>2, FoundFacts
    <2>2. found \cap Rows \subseteq Found(call[p].op, Rows)  BY FoundFacts
    <2>3. call[p].there \cap table \subseteq call[p].seen  BY <1>1, <1>2 DEF OwedOK
    <2>4. Found(call[p].op, Rows) \cap (call[p].seen \cap table) \subseteq found
        BY FoundFacts
    <2>5. call[p].there \subseteq Found(call[p].op, Rows)  BY <1>2 DEF CallOK
    <2>6. QED  BY <2>1, <2>2, <2>3, <2>4, <2>5
<1> HIDE DEF found
<1>5. /\ c \in CallType /\ c.phase = "executed" /\ c.op = call[p].op /\ c.there = call[p].there
    BY <1>2 DEF CallType
<1>6. /\ t \in TransactionType /\ t.open /\ t.adds = txn[p].adds /\ t.dels = found
      /\ t.drops = txn[p].drops /\ txn[p].adds = {} /\ ~txn[p].drops
    BY <1>2, <1>3, <1>4 DEF TransactionType, TransactionOK
<1> HIDE DEF c, t
<1>7. Step(p, c, t, "open", outcome[p])  BY <1>1, <1>2 DEF Step, TypeOK
<1>8. ProcessOK(p)'
    <2>1. call'[p] = c /\ txn'[p] = t /\ conn'[p] = "open"  BY <1>2, <1>7, StepFacts
    <2>2. QED
        BY <1>1, <1>2, <1>3, <1>4, <1>5, <1>6, <2>1
        DEF ProcessOK, CallOK, TransactionOK, OwedOK, FreshOK
<1>9. nextId' \in 1..(MaxRows + 1) /\ nextId' >= nextId  BY <1>1, <1>2
<1>10. QED  BY <1>1, <1>2, <1>5, <1>6, <1>7, <1>8, <1>9, StatementKeeps

LEMMA SendInitializeKeeps ==
    ASSUME IInv, NEW p \in Procs, SendInitialize(p)
    PROVE  IInv' /\ Refines
<1> DEFINE c == [call[p] EXCEPT !.phase = "executed"]
           t == Transaction({}, {}, TRUE)
<1>1. /\ Reaches(p) /\ call[p].op = Initialize
      /\ call' = [call EXCEPT ![p] = c] /\ txn' = [txn EXCEPT ![p] = t]
      /\ UNCHANGED <<table, schema, nextId, outcome, job, file, losses>>
    BY DEF SendInitialize, server
<1>2. /\ call[p] # NoCall /\ conn' = [conn EXCEPT ![p] = "open"]
      /\ c \in CallType /\ c.phase = "executed" /\ c.op = call[p].op /\ c.there = call[p].there
      /\ TypeOK /\ nextId \in 1..(MaxRows + 1) /\ CallOK(p) /\ FreshOK(p)
    BY <1>1, ReachesFacts, Facts
<1>3. t \in TransactionType /\ t.open /\ t.adds = {} /\ t.dels = {} /\ t.drops
    BY DEF Transaction, TransactionType
<1>4. /\ call[p].op \notin Reads \cup Inserts \cup Deletes
      /\ call[p].op \in Ops
    BY <1>1, Kinds DEF Ops
<1>5. call[p].there = {}
    <2>1. Found(call[p].op, Rows) = {}  BY <1>4, FoundFacts
    <2>2. QED  BY <1>2, <2>1 DEF CallOK
<1> HIDE DEF c, t
<1>6. Step(p, c, t, "open", outcome[p])  BY <1>1, <1>2 DEF Step, TypeOK
<1>7. ProcessOK(p)'
    <2>1. call'[p] = c /\ txn'[p] = t /\ conn'[p] = "open"  BY <1>2, <1>6, StepFacts
    <2>2. QED
        BY <1>1, <1>2, <1>3, <1>4, <1>5, <2>1
        DEF ProcessOK, CallOK, TransactionOK, OwedOK, FreshOK
<1>8. nextId' \in 1..(MaxRows + 1) /\ nextId' >= nextId  BY <1>1, <1>2
<1>9. QED  BY <1>1, <1>2, <1>3, <1>6, <1>7, <1>8, StatementKeeps

\* The rows of a table can be put in order.
LEMMA RowsInOrder ==
    ASSUME IsFiniteSet(table), table \subseteq Rows
    PROVE  LET rows == SetToSeq(table)
           IN [i \in DOMAIN rows |-> rows[i].char] \in Seq(Items)
<1> DEFINE n == Cardinality(table)
           Orders == {f \in [1..n -> table] : IsInjective(f)}
           rows == SetToSeq(table)
<1>1. n \in Nat /\ ExistsBijection(1..n, table)  BY FS_CardinalityType
<1>2. Orders # {}  BY <1>1 DEF ExistsBijection, Bijection, Injection
<1>3. rows \in Orders  BY <1>2 DEF SetToSeq
<1>4. DOMAIN rows = 1..n /\ \A i \in 1..n : rows[i] \in Rows  BY <1>3
<1>5. \A i \in 1..n : rows[i].char \in Items  BY <1>4 DEF Rows, Items
<1> HIDE DEF rows, n
<1>6. [i \in 1..n |-> rows[i].char] \in Seq(Items)  BY <1>1, <1>5
<1>7. [i \in DOMAIN rows |-> rows[i].char] \in Seq(Items)  BY <1>4, <1>6
<1>8. QED  BY <1>7 DEF rows

LEMMA SendReadKeeps ==
    ASSUME IInv, NEW p \in Procs, SendRead(p)
    PROVE  IInv' /\ Refines
<1>1. /\ Reaches(p) /\ call[p].op \in Reads /\ call[p] # NoCall
      /\ Step(p, NoCall, NoTransaction, "open", "ok")
      /\ UNCHANGED <<table, schema, nextId, file, losses>>
    BY ReachesFacts DEF SendRead, Returns, Step, server
<1>2. /\ TypeOK /\ SharedOK /\ job[p] \in JobType /\ job \in [Procs -> JobType] /\ ImportOK(p)
      /\ table \subseteq Rows /\ IsFiniteSet(table)
    BY Facts DEF SharedOK
<1>3. /\ job' \in [Procs -> JobType] /\ OthersWork(p) /\ ImportOK(p)'
    <2>1. CASE job[p].what = "export"
        <3> DEFINE rows == SetToSeq(table)
                   items == [i \in DOMAIN rows |-> rows[i].char]
                   new == [job[p] EXCEPT !.what = "open", !.items = items]
        <3>1. items \in Seq(Items)  BY <1>2, RowsInOrder
        <3>2. job' = [job EXCEPT ![p] = new]  BY <2>1 DEF SendRead
        <3> HIDE DEF items
        <3>3. new \in JobType /\ new.what = "open"  BY <1>2, <3>1 DEF JobType
        <3> HIDE DEF new
        <3>4. job' \in [Procs -> JobType] /\ OthersWork(p) /\ job'[p] = new
            BY <3>2, <3>3, JobChanges
        <3>5. QED  BY <3>3, <3>4 DEF ImportOK
    <2>2. CASE job[p].what # "export"
        <3>1. job' = job  BY <2>2 DEF SendRead
        <3>2. call'[p] = NoCall /\ call'[p].op \notin Inserts /\ call[p].op \notin Inserts
            BY <1>1, <1>2, StepFacts, Nothing, Kinds
        <3>3. ImportOK(p)'  BY <1>2, <3>1, <3>2, ImportStays
        <3>4. QED  BY <1>2, <3>1, <3>3 DEF OthersWork
    <2>3. QED  BY <2>1, <2>2
<1>4. IInv'  BY <1>1, <1>3, Facts, IdleKeeps DEF ConnType
<1>5. Contract!Return(p) \/ Contract!Throw(p)
    BY <1>1, <1>2, ReadHasEffect, EndRefines
<1>6. QED  BY <1>4, <1>5 DEF Refines, Contract!Next

LEMMA NotAloneFacts ==
    ASSUME IInv, NEW p \in Procs
    PROVE  /\ NotAlone(p) \in [Procs -> JobType] /\ NotAlone(p)[p] = job[p]
           /\ \A q \in Procs \ {p} :
                 \/ NotAlone(p)[q] = job[q]
                 \/ job[q].what = "import" /\ NotAlone(p)[q] = [job[q] EXCEPT !.alone = FALSE]
<1> DEFINE shared(q) == [job[q] EXCEPT !.alone = FALSE]
           told(q) == q # p /\ job[q].what = "import"
<1>1. \A q \in Procs : job[q] \in JobType /\ shared(q) \in JobType
    <2>1. \A q \in Procs : job[q] \in JobType  BY Facts
    <2>2. QED  BY <2>1, JobUpdates
<1>2. NotAlone(p) = [q \in Procs |-> IF told(q) THEN shared(q) ELSE job[q]]
    BY Zenon DEF NotAlone
<1>3. told(p) = FALSE /\ \A q \in Procs : told(q) => job[q].what = "import"
    OBVIOUS
<1> HIDE DEF shared, told
<1>4. NotAlone(p) \in [Procs -> JobType] /\ NotAlone(p)[p] = job[p]  BY <1>1, <1>2, <1>3
<1>5. \A q \in Procs : \/ NotAlone(p)[q] = job[q]
                       \/ job[q].what = "import" /\ NotAlone(p)[q] = shared(q)
    BY <1>2, <1>3
<1>6. ASSUME NEW q \in Procs \ {p}
      PROVE  \/ NotAlone(p)[q] = job[q]
             \/ job[q].what = "import" /\ NotAlone(p)[q] = [job[q] EXCEPT !.alone = FALSE]
    <2>1. q \in Procs  OBVIOUS
    <2>2. QED  BY <1>5, <2>1, Zenon DEF shared
<1>7. QED  BY <1>4, <1>6, Zenon

\* With a commit an import is done with the item that it was at.
LEMMA CommitKeeps ==
    ASSUME IInv, NEW p \in Procs, Commit(p)
    PROVE  IInv' /\ Refines
<1>1. /\ In(p, "executed") /\ conn[p] = "open" /\ Committed(p)
      /\ call' = [call EXCEPT ![p] = NoCall] /\ txn' = [txn EXCEPT ![p] = NoTransaction]
      /\ outcome' = [outcome EXCEPT ![p] = "ok"]
      /\ UNCHANGED <<conn, file, losses>>
    BY DEF Commit, Returns
<1>2. TypeOK /\ SharedOK /\ job[p] \in JobType /\ ImportOK(p)  BY Facts
<1>3. Step(p, NoCall, NoTransaction, "open", "ok")  BY <1>1, <1>2 DEF Step, TypeOK
<1>4. /\ Contract!Effect(p)
      /\ table' \subseteq table \cup txn[p].adds /\ table' \subseteq Rows
      /\ schema' \in BOOLEAN /\ nextId' = nextId /\ call[p] # NoCall
    BY <1>1, <1>2, CommitHasEffect
<1>5. call'[p] = NoCall /\ call'[p].op \notin Inserts
    BY <1>2, <1>3, StepFacts, Nothing, Kinds
<1>6. job' \in [Procs -> JobType] /\ OthersWork(p) /\ ImportOK(p)'
    <2>1. job' \in [Procs -> JobType] /\ OthersWork(p) /\ job'[p] = job[p]
        BY NotAloneFacts DEF Commit, OthersWork
    <2>2. CASE job[p].what = "import" /\ call[p].op \in Inserts
        <3>1. job[p].next \in Nat /\ Len(job[p].items) \in Nat
            BY <1>2, LenProperties DEF JobType
        <3>2. job[p].next - 2 \in 0..Len(job[p].items) /\ (job[p].next - 2) + 1 <= Len(job[p].items)
            BY <1>2, <2>2 DEF ImportOK, Done
        <3>3. job[p].next - 1 \in 0..Len(job[p].items)  BY <3>1, <3>2
        <3>4. QED  BY <1>5, <2>1, <3>3 DEF ImportOK, Done
    <2>3. CASE ~(job[p].what = "import" /\ call[p].op \in Inserts)
        <3>1. ImportOK(p)'  BY <1>2, <1>5, <2>1, <2>3, ImportStays DEF ImportOK
        <3>2. QED  BY <2>1, <3>1
    <2>4. QED  BY <2>1, <2>2, <2>3
<1>7. IInv'  BY <1>1, <1>3, <1>4, <1>6, Facts, IdleKeeps DEF ConnType
<1>8. Contract!Return(p) \/ Contract!Throw(p)  BY <1>2, <1>3, <1>4, EndRefines
<1>9. QED  BY <1>7, <1>8 DEF Refines, Contract!Next

\* The call throws and has taken effect.
LEMMA CommitUnansweredKeeps ==
    ASSUME IInv, NEW p \in Procs, CommitUnanswered(p)
    PROVE  IInv' /\ Refines
<1>1. /\ In(p, "executed") /\ conn[p] = "open" /\ Committed(p)
      /\ Step(p, NoCall, NoTransaction, "closed", "failed")
      /\ losses < MaxLosses /\ losses' = losses + 1 /\ UNCHANGED file
      /\ job' = [NotAlone(p) EXCEPT ![p] = NoJob]
    BY DEF CommitUnanswered, Step
<1>2. TypeOK /\ SharedOK /\ losses' \in 0..MaxLosses
    BY <1>1, Facts, DatabaseAssumption
<1>3. /\ Contract!Effect(p)
      /\ table' \subseteq table \cup txn[p].adds /\ table' \subseteq Rows
      /\ schema' \in BOOLEAN /\ nextId' = nextId /\ call[p] # NoCall
    BY <1>1, <1>2, CommitHasEffect
<1>4. job' \in [Procs -> JobType] /\ OthersWork(p) /\ ImportOK(p)'
    <2>1. job' \in [Procs -> JobType] /\ OthersWork(p) /\ job'[p] = NoJob
        BY <1>1, NotAloneFacts, Nothing DEF OthersWork
    <2>2. QED  BY <2>1, Nothing DEF ImportOK
<1>5. IInv'  BY <1>1, <1>2, <1>3, <1>4, Facts, IdleKeeps DEF ConnType
<1>6. Contract!Return(p) \/ Contract!Throw(p)  BY <1>1, <1>2, <1>3, EndRefines
<1>7. QED  BY <1>5, <1>6 DEF Refines, Contract!Next

-----------------------------------------------------------------------------
(* The invariant, and the theorems. *)

LEMMA InitInvariant == Init => IInv
<1> SUFFICES ASSUME Init PROVE IInv
    OBVIOUS
<1>1. /\ table = {} /\ schema = FALSE /\ nextId = 1 /\ losses = 0
      /\ conn = [p \in Procs |-> "closed"] /\ txn = [p \in Procs |-> NoTransaction]
      /\ call = [p \in Procs |-> NoCall] /\ outcome = [p \in Procs |-> "ok"]
      /\ job = [p \in Procs |-> NoJob]
      /\ file = [f \in Files |-> Contents(TRUE, Snapshot[f])]
    BY DEF Init
<1>2. file \in [Files -> [readable : BOOLEAN, items : Seq(Items)]]
    BY <1>1, DatabaseAssumption DEF Contents
<1>3. nextId \in 1..(MaxRows + 1) /\ losses \in 0..MaxLosses
    BY <1>1, CharacteristicsAssumption, DatabaseAssumption
<1>4. TypeOK
    <2>1. /\ call \in [Procs -> CallType] /\ txn \in [Procs -> TransactionType]
          /\ job \in [Procs -> JobType]
        BY <1>1, Nothing
    <2>2. \A p \in Procs :
            /\ call[p] = NoCall /\ call[p].phase = "none"
            /\ txn[p] = NoTransaction /\ ~txn[p].open
        BY <1>1, Nothing
    <2>3. QED
        BY <1>1, <1>2, <1>3, <2>1, <2>2 DEF TypeOK, CallType, TransactionType, JobType
<1>5. SharedOK
    <2>1. \A p \in Procs : ProcessOK(p)
        BY <1>1, Nothing, Kinds
        DEF ProcessOK, CallOK, TransactionOK, OwedOK, FreshOK
    <2>2. \A p, q \in Procs : Apart(p, q)  BY <1>1, Nothing DEF Apart
    <2>3. QED  BY <1>1, <2>1, <2>2, FS_EmptySet DEF SharedOK
<1>6. ImportsOK  BY <1>1, Nothing DEF ImportsOK, ImportOK
<1>7. QED  BY <1>4, <1>5, <1>6 DEF IInv

LEMMA StepKeeps ==
    ASSUME IInv, [Next]_vars
    PROVE  IInv' /\ Refines
<1>1. CASE UNCHANGED vars
    <2>1. UNCHANGED <<table, schema, nextId, conn, txn, call, outcome, job, file, losses>>
        BY <1>1 DEF vars, server
    <2>2. TypeOK'  BY <2>1 DEF IInv, TypeOK, Working
    <2>3. SharedOK' /\ ImportsOK'
        BY <2>1
        DEF IInv, SharedOK, ImportsOK, ImportOK, Done, ProcessOK, CallOK, TransactionOK, OwedOK,
            FreshOK, Apart
    <2>4. QED  BY <2>1, <2>2, <2>3 DEF IInv, Refines, Pending
<1>2. CASE Next
    <2>1. PICK p \in Procs :
            Call(p) \/ Import(p) \/ Export(p) \/ CallStep(p) \/ JobStep(p) \/ Lose(p) \/ Crash(p)
        BY <1>2 DEF Next
    <2>2. CASE Call(p)  BY <2>2, CallKeeps
    <2>3. CASE Import(p)  BY <2>3, ImportKeeps
    <2>4. CASE Export(p)  BY <2>4, ExportKeeps
    <2>5. CASE CallStep(p)
        BY <2>5, ConnectFailsKeeps, SendInsertKeeps, SendReadKeeps, SendDeleteKeeps,
           SendInitializeKeeps, SendFailsKeeps, DeleteKeeps, CommitKeeps, CommitUnansweredKeeps,
           BrokenConnectionKeeps
        DEF CallStep
    <2>6. CASE JobStep(p)
        BY <2>6, ImportItemKeeps, ImportedKeeps, TruncateKeeps, WriteKeeps DEF JobStep
    <2>7. CASE Lose(p)  BY <2>7, LoseKeeps
    <2>8. CASE Crash(p)  BY <2>8, CrashKeeps
    <2>9. QED  BY <2>1, <2>2, <2>3, <2>4, <2>5, <2>6, <2>7, <2>8
<1>3. QED  BY <1>1, <1>2

LEMMA Invariance == Spec => []IInv
<1>1. IInv /\ [Next]_vars => IInv'  BY StepKeeps
<1>2. QED  BY <1>1, InitInvariant, PTL DEF Spec

\* Every variable keeps its type; a transaction is open only inside a call that
\* has sent its statement, on a connection that is not known to be lost.
THEOREM TypeCorrect == Spec => []TypeOK
<1>1. IInv => TypeOK  BY DEF IInv
<1>2. QED  BY <1>1, Invariance, PTL

\* The transactions implement the contract of the table: whatever connections
\* are lost, whoever else inserts and deletes, and whenever a process is
\* killed, each call takes effect once and altogether, and a deletion removes
\* all the rows it owes.
THEOREM ServesContract == Spec => ImplementsTable
<1>1. Init => Contract!Init
    <2> SUFFICES ASSUME Init PROVE Contract!Init
        OBVIOUS
    <2>1. Pending = [p \in Procs |-> Contract!Idle]
        BY Nothing DEF Init, Pending, Contract!Idle, Contract!NoOp, Contract!Op, NoOp, Op
    <2>2. QED  BY <2>1 DEF Init, Contract!Init, Pending
<1>2. IInv /\ [Next]_vars => [Contract!Next]_Contract!vars
    BY StepKeeps DEF Refines, Contract!vars, Pending
<1>3. QED  BY <1>1, <1>2, Invariance, PTL DEF Spec, ImplementsTable, Contract!Spec

-----------------------------------------------------------------------------
(* A restore that nobody disturbs is complete. *)

\* Only a commit of another process changes the table, and then it says so.
LEMMA OtherRestores ==
    ASSUME NEW p \in Procs, RestoreOK(p), job[p] \in JobType, call'[p] = call[p],
           \/ job'[p] = job[p] /\ (UNCHANGED table \/ job[p].what # "import")
           \/ job'[p] = [job[p] EXCEPT !.alone = FALSE]
    PROVE  RestoreOK(p)'
<1>1. CASE job'[p] = job[p] /\ (UNCHANGED table \/ job[p].what # "import")
    BY <1>1 DEF RestoreOK, Holds, Done
<1>2. CASE job'[p] = [job[p] EXCEPT !.alone = FALSE]
    <2>1. /\ job'[p].what = job[p].what /\ job'[p].next = job[p].next
          /\ ~job'[p].alone
        BY <1>2 DEF JobType
    <2>2. QED  BY <2>1 DEF RestoreOK
<1>3. QED  BY <1>1, <1>2

LEMMA QuietRestores ==
    ASSUME IInv, RestoresOK, NEW p \in Procs, UNCHANGED table,
           \A q \in Procs \ {p} : call'[q] = call[q] /\ job'[q] = job[q],
           \/ job'[p].what # "import"
           \/ /\ job'[p] = job[p] /\ call'[p].op = call[p].op /\ call'[p].there = call[p].there
              /\ call[p] # NoCall \/ call'[p] = NoCall
    PROVE  RestoresOK'
<1>1. RestoreOK(p)'  BY DEF RestoresOK, RestoreOK, Holds, Done
<1>2. ASSUME NEW q \in Procs, q # p PROVE RestoreOK(q)'
    <2>1. job[q] \in JobType /\ RestoreOK(q)  BY Facts DEF RestoresOK
    <2>2. call'[q] = call[q] /\ job'[q] = job[q]  BY <1>2
    <2>3. QED  BY <2>1, <2>2, OtherRestores
<1>3. QED  BY <1>1, <1>2 DEF RestoresOK

LEMMA JobEndsRestores ==
    ASSUME IInv, RestoresOK, NEW p \in Procs, JobEnds(p), UNCHANGED table,
           UNCHANGED call \/ call' = [call EXCEPT ![p] = NoCall]
    PROVE  RestoresOK'
<1>1. job'[p].what # "import"  BY JobEnded, Nothing
<1>2. \A q \in Procs \ {p} : call'[q] = call[q] /\ job'[q] = job[q]
    <2>1. call \in [Procs -> CallType] /\ job \in [Procs -> JobType]
        BY DEF IInv, TypeOK, CallType, JobType
    <2>2. QED  BY <2>1 DEF JobEnds
<1>3. QED  BY <1>1, <1>2, QuietRestores

\* Everything but the steps of an import that begins, adds or commits.
LEMMA OtherStepsRestore ==
    ASSUME IInv, RestoresOK, NEW p \in Procs,
           \/ Call(p) \/ Export(p) \/ Imported(p) \/ Truncate(p) \/ Write(p)
           \/ Lose(p) \/ Crash(p)
           \/ ConnectFails(p) \/ SendInsert(p) \/ SendRead(p) \/ SendDelete(p)
           \/ SendInitialize(p) \/ SendFails(p) \/ Delete(p) \/ BrokenConnection(p)
    PROVE  RestoresOK'
<1>1. /\ TypeOK /\ RestoreOK(p) /\ call[p] \in CallType /\ job \in [Procs -> JobType]
    BY Facts DEF RestoresOK
<1>2. CASE Call(p) \/ Export(p)
    <2>1. /\ UNCHANGED table /\ job[p] = NoJob
          /\ job' = job \/ job' = [job EXCEPT ![p] = Job("export")]
          /\ \E op : call' = [call EXCEPT ![p] = Calling(op)]
        BY <1>2, FreeFacts DEF Call, Export, Calls, server
    <2>2. Job("export").what = "export" /\ NoJob.what = "none"  BY Nothing DEF Job
    <2>3. job'[p].what # "import" /\ \A q \in Procs \ {p} : call'[q] = call[q] /\ job'[q] = job[q]
        BY <1>1, <2>1, <2>2 DEF TypeOK
    <2>4. QED  BY <2>1, <2>3, QuietRestores
<1>3. CASE Imported(p) \/ Write(p)
    BY <1>3, JobEndsRestores DEF Imported, Write, server
<1>4. CASE ConnectFails(p) \/ SendFails(p) \/ BrokenConnection(p) \/ Crash(p)
    BY <1>4, JobEndsRestores DEF ConnectFails, SendFails, BrokenConnection, Crash, Throws, server
<1>5. CASE Truncate(p)
    <2>1. /\ UNCHANGED <<table, call>>
          /\ \/ JobEnds(p)
             \/ \E f : job' = [job EXCEPT ![p].what = "write", ![p].into = f]
        BY <1>5 DEF Truncate, server
    <2>2. CASE JobEnds(p)  BY <2>1, <2>2, JobEndsRestores
    <2>3. ASSUME NEW f, job' = [job EXCEPT ![p].what = "write", ![p].into = f]
          PROVE  RestoresOK'
        <3>1. job'[p].what = "write" /\ \A q \in Procs \ {p} : job'[q] = job[q]
            BY <1>1, <2>3 DEF JobType
        <3>2. QED  BY <2>1, <3>1, QuietRestores
    <2>4. QED  BY <2>1, <2>2, <2>3
<1>6. CASE Lose(p)
    <2>1. UNCHANGED <<table, call, job>>  BY <1>6 DEF Lose, server
    <2>2. call[p] # NoCall \/ call'[p] = NoCall  BY <2>1
    <2>3. QED  BY <2>1, <2>2, QuietRestores
<1>7. CASE SendInsert(p) \/ SendDelete(p) \/ Delete(p) \/ SendInitialize(p)
    <2>1. /\ UNCHANGED <<table, job>> /\ call[p].phase \in {"called", "waiting"}
          /\ \/ call' = [call EXCEPT ![p].phase = "executed"]
             \/ call' = [call EXCEPT ![p].phase = "waiting", ![p].seen = table]
             \/ call' = [call EXCEPT ![p].phase = "executed", ![p].seen = {}]
        BY <1>7 DEF SendInsert, SendDelete, Delete, SendInitialize, Reaches, In, server
    <2>2. /\ call'[p].op = call[p].op /\ call'[p].there = call[p].there
          /\ \A q \in Procs \ {p} : call'[q] = call[q]
        BY <1>1, <2>1 DEF TypeOK, CallType
    <2>3. call[p] # NoCall  BY <2>1, Nothing
    <2>4. QED  BY <2>1, <2>2, <2>3, QuietRestores
<1>8. CASE SendRead(p)
    <2>1. /\ UNCHANGED table /\ call[p].op \in Reads /\ call[p] # NoCall
          /\ call' = [call EXCEPT ![p] = NoCall]
        BY <1>8, ReachesFacts DEF SendRead, Returns, server
    <2>2. job[p].what # "import"
        <3>1. call[p].op \notin Inserts /\ call[p].op # Clear
            <4>1. Clear \in Deletes  BY DEF Deletes, Clear
            <4>2. QED  BY <2>1, <4>1, Kinds
        <3>2. QED  BY <1>1, <2>1, <3>1 DEF RestoreOK
    <2>3. job'[p].what # "import" /\ \A q \in Procs \ {p} : job'[q] = job[q]
        <3>1. CASE job[p].what = "export"
            <4>1. PICK items : job' = [job EXCEPT ![p].what = "open", ![p].items = items]
                BY <1>8, <3>1 DEF SendRead
            <4>2. QED  BY <1>1, <4>1 DEF JobType
        <3>2. CASE job[p].what # "export"
            BY <1>8, <2>2, <3>2 DEF SendRead
        <3>3. QED  BY <3>1, <3>2
    <2>4. \A q \in Procs \ {p} : call'[q] = call[q]  BY <1>1, <2>1 DEF TypeOK
    <2>5. QED  BY <2>1, <2>3, <2>4, QuietRestores
<1>9. QED  BY <1>2, <1>3, <1>4, <1>5, <1>6, <1>7, <1>8

LEMMA Counts ==
    ASSUME NEW items, NEW n \in Nat, NEW c
    PROVE  /\ Count(c, items, n) \in Nat
           /\ Count(c, items, n + 1) =
                  Count(c, items, n) + (IF items[n + 1] = c THEN 1 ELSE 0)
<1> DEFINE of == {i \in 1..n : items[i] = c}
           more == {i \in 1..(n + 1) : items[i] = c}
<1>1. more = IF items[n + 1] = c THEN of \cup {n + 1} ELSE of
    <2>1. \A i : i \in 1..(n + 1) <=> i \in 1..n \/ i = n + 1  OBVIOUS
    <2>2. CASE items[n + 1] = c
        <3>1. \A i : i \in more <=> i \in of \/ i = n + 1  BY <2>1, <2>2
        <3>2. QED  BY <2>2, <3>1
    <2>3. CASE items[n + 1] # c
        <3>1. \A i : i \in more <=> i \in of  BY <2>1, <2>3
        <3>2. QED  BY <2>3, <3>1
    <2>4. QED  BY <2>2, <2>3
<1>2. IsFiniteSet(of) /\ n + 1 \notin of
    <2>1. 1 \in Int /\ n \in Int  OBVIOUS
    <2>2. IsFiniteSet(1..n)  BY <2>1, FS_Interval, Zenon
    <2>3. QED  BY <2>2, FS_Subset
<1>3. Count(c, items, n) = Cardinality(of) /\ Count(c, items, n + 1) = Cardinality(more)
    BY DEF Count
<1> HIDE DEF of, more
<1>4. Cardinality(of) \in Nat /\ Cardinality(of \cup {n + 1}) = Cardinality(of) + 1
    BY <1>2, FS_CardinalityType, FS_AddElement
<1>5. QED  BY <1>1, <1>3, <1>4

LEMMA Holdings ==
    ASSUME IsFiniteSet(table), NEW r, r \notin table, NEW c
    PROVE  /\ Cardinality(Holding(c, table)) \in Nat
           /\ Cardinality(Holding(c, table \cup {r})) =
                  Cardinality(Holding(c, table)) + (IF r.char = c THEN 1 ELSE 0)
<1>1. IsFiniteSet(Holding(c, table))  BY FS_Subset DEF Holding
<1>2. Holding(c, table \cup {r}) =
          IF r.char = c THEN Holding(c, table) \cup {r} ELSE Holding(c, table)
    BY DEF Holding
<1>3. r \notin Holding(c, table)  BY DEF Holding
<1>4. QED  BY <1>1, <1>2, <1>3, FS_CardinalityType, FS_AddElement

LEMMA ImportRestores ==
    ASSUME IInv, RestoresOK, NEW p \in Procs, Import(p)
    PROVE  RestoresOK'
<1>1. /\ call[p] = NoCall /\ UNCHANGED table /\ TypeOK /\ table \subseteq Rows
      /\ job \in [Procs -> JobType]
    BY FreeFacts, Facts DEF Import, server
<1>2. PICK f \in Files, clear \in BOOLEAN :
           IF file[f].readable
           THEN /\ job' = [job EXCEPT ![p] = [Job("import") EXCEPT
                             !.items = file[f].items, !.clear = clear]]
                /\ IF clear
                   THEN Calls(p, Op("clear", "any"))
                   ELSE UNCHANGED <<call, outcome>>
           ELSE JobEnds(p) /\ UNCHANGED <<call, outcome>>
    BY DEF Import
<1>3. CASE file[f].readable
    <2>1. /\ job'[p].next = 1 /\ job'[p].clear = clear
          /\ \A q \in Procs \ {p} : job'[q] = job[q]
        <3> DEFINE new == [Job("import") EXCEPT !.items = file[f].items, !.clear = clear]
        <3>1. job' = [job EXCEPT ![p] = new]  BY <1>2, <1>3
        <3>2. new.next = 1 /\ new.clear = clear  BY DEF Job
        <3> HIDE DEF new
        <3>3. QED  BY <1>1, <3>1, <3>2
    <2>2. /\ clear => call' = [call EXCEPT ![p] = Calling(Clear)]
          /\ ~clear => call' = call
        BY <1>2, <1>3 DEF Calls, Clear
    <2>3. /\ Calling(Clear).op = Clear /\ Calling(Clear).there = table
        <3>1. Clear \in Ops  BY DEF Ops, Deletes, Clear
        <3>2. Found(Clear, table) = table  BY DEF Found, Clear, Op
        <3>3. QED  BY <1>1, <3>1, <3>2, CallingFacts
    <2>4. RestoreOK(p)'
        <3>1. CASE clear
            <4>1. call'[p] = Calling(Clear)  BY <1>1, <2>2, <3>1 DEF TypeOK
            <4>2. QED  BY <1>1, <2>1, <2>3, <4>1 DEF RestoreOK
        <3>2. CASE ~clear
            <4>1. call'[p] = NoCall /\ ~job'[p].clear  BY <1>1, <2>1, <2>2, <3>2
            <4>2. QED  BY <4>1 DEF RestoreOK
        <3>3. QED  BY <3>1, <3>2
    <2>5. ASSUME NEW q \in Procs, q # p PROVE RestoreOK(q)'
        <3>1. call'[q] = call[q] /\ job'[q] = job[q]  BY <1>1, <2>1, <2>2, <2>5 DEF TypeOK
        <3>2. job[q] \in JobType /\ RestoreOK(q)  BY Facts DEF RestoresOK
        <3>3. QED  BY <1>1, <3>1, <3>2, OtherRestores
    <2>6. QED  BY <2>4, <2>5 DEF RestoresOK
<1>4. CASE ~file[f].readable
    BY <1>1, <1>2, <1>4, JobEndsRestores
<1>5. QED  BY <1>3, <1>4

LEMMA ImportItemRestores ==
    ASSUME IInv, RestoresOK, NEW p \in Procs, ImportItem(p)
    PROVE  RestoresOK'
<1> DEFINE item == job[p].items[job[p].next]
<1>1. /\ UNCHANGED table /\ call[p] = NoCall /\ job[p].what = "import" /\ call[p].op # Clear
      /\ TypeOK /\ job \in [Procs -> JobType] /\ RestoreOK(p)
    <2>1. Clear # NoOp  BY DEF Clear, NoOp, Op
    <2>2. QED  BY <2>1, Facts, Nothing DEF ImportItem, Importing, RestoresOK, server
<1>2. CASE item = Mistyped
    BY <1>1, <1>2, JobEndsRestores DEF ImportItem
<1>3. CASE item # Mistyped
    <2> DEFINE op == Op("insert", item)
    <2>1. /\ call' = [call EXCEPT ![p] = Calling(op)]
          /\ job' = [job EXCEPT ![p].next = @ + 1]
        BY <1>3 DEF ImportItem, Calls
    <2>2. /\ call'[p].op = op /\ op # Clear
        BY <1>1, <2>1 DEF Calling, TypeOK, Clear, Op
    <2>3. /\ job'[p].what = "import" /\ job'[p].clear = job[p].clear
          /\ job'[p].alone = job[p].alone /\ job'[p].items = job[p].items
          /\ job'[p].next = job[p].next + 1 /\ job[p].next \in Nat
          /\ \A q \in Procs \ {p} : job'[q] = job[q] /\ call'[q] = call[q]
        BY <1>1, <2>1 DEF JobType, TypeOK
    <2>4. op \in Inserts
        <3>1. call'[p] # NoCall
            BY <1>1, <2>1 DEF Calling, NoCall, TypeOK
        <3>2. (call[p] # NoCall => call[p].op \in Ops)'
            BY ImportItemKeeps DEF IInv, SharedOK, ProcessOK, CallOK
        <3>3. op \in Ops /\ op.kind = "insert"  BY <2>2, <3>1, <3>2 DEF Op
        <3>4. QED  BY <3>3 DEF Ops, Deletes, Reads, Initialize, Op
    <2> HIDE DEF op
    <2>5. RestoreOK(p)'
        <3>1. Done(p)' = Done(p)
            <4>1. call[p].op \notin Inserts  BY <1>1, Kinds, Nothing
            <4>2. (job[p].next + 1) - 2 = job[p].next - 1  BY <2>3
            <4>3. QED  BY <2>2, <2>3, <2>4, <4>1, <4>2 DEF Done
        <3>2. QED  BY <1>1, <2>2, <2>3, <2>4, <3>1 DEF RestoreOK, Holds
    <2>6. ASSUME NEW q \in Procs, q # p PROVE RestoreOK(q)'
        <3>1. call'[q] = call[q] /\ job'[q] = job[q]  BY <2>3, <2>6
        <3>2. job[q] \in JobType /\ RestoreOK(q)  BY Facts DEF RestoresOK
        <3>3. QED  BY <1>1, <3>1, <3>2, OtherRestores
    <2>7. QED  BY <2>5, <2>6 DEF RestoresOK
<1>4. QED  BY <1>2, <1>3

\* The commit of another process ends the solitude of an import.
LEMMA CommitsRestoreOthers ==
    ASSUME IInv, RestoresOK, NEW p \in Procs, call' = [call EXCEPT ![p] = NoCall],
           \A q \in Procs \ {p} : job'[q] = NotAlone(p)[q]
    PROVE  \A q \in Procs \ {p} : RestoreOK(q)'
<1> SUFFICES ASSUME NEW q \in Procs, q # p PROVE RestoreOK(q)'
    OBVIOUS
<1>1. call'[q] = call[q] /\ job[q] \in JobType /\ RestoreOK(q)
    BY Facts DEF RestoresOK, TypeOK
<1>2. \/ job'[q] = job[q] /\ job[q].what # "import"
      \/ job'[q] = [job[q] EXCEPT !.alone = FALSE]
    BY DEF NotAlone
<1>3. QED  BY <1>1, <1>2, OtherRestores

LEMMA CommitUnansweredRestores ==
    ASSUME IInv, RestoresOK, NEW p \in Procs, CommitUnanswered(p)
    PROVE  RestoresOK'
<1>1. /\ call' = [call EXCEPT ![p] = NoCall]
      /\ job' = [NotAlone(p) EXCEPT ![p] = NoJob]
    BY DEF CommitUnanswered
<1>2. job'[p] = NoJob /\ \A q \in Procs \ {p} : job'[q] = NotAlone(p)[q]
    BY <1>1, NotAloneFacts
<1>3. RestoreOK(p)'  BY <1>2, Nothing DEF RestoreOK
<1>4. QED  BY <1>1, <1>2, <1>3, CommitsRestoreOthers DEF RestoresOK

\* The clearing leaves nothing, and each insertion adds the row of its item.
LEMMA CommitLeaves ==
    ASSUME IInv, RestoresOK, NEW p \in Procs,
           In(p, "executed"), conn[p] = "open", Committed(p),
           job[p].what = "import", job[p].clear, job[p].alone
    PROVE  Holds(table', job[p].items, job[p].next - 1)
<1>1. /\ TypeOK /\ SharedOK /\ job[p] \in JobType /\ RestoreOK(p) /\ ImportOK(p)
      /\ CallOK(p) /\ TransactionOK(p) /\ OwedOK(p) /\ FreshOK(p)
    BY Facts DEF RestoresOK
<1>2. call[p] # NoCall /\ txn[p].open /\ call[p].phase = "executed"
    BY <1>1, CommitHasEffect DEF In
<1>3. CASE call[p].op \in Inserts
    <2> DEFINE item == call[p].op.arg
               n == job[p].next - 2
    <2>1. PICK r \in Rows : r.char = item /\ txn[p].adds = {r}
        BY <1>1, <1>2, <1>3 DEF TransactionOK
    <2>2. IsFiniteSet(table)  BY <1>1 DEF SharedOK
    <2>3. r \notin table /\ table' = table \cup {r}
        <3>1. call[p].op \notin Deletes \cup {Initialize} /\ call[p].op \in Ops
            BY <1>3, Kinds DEF Ops
        <3>2. Found(call[p].op, Rows) = {}  BY <3>1, FoundFacts
        <3>3. txn[p].dels = {} /\ ~txn[p].drops
            BY <1>1, <3>1, <3>2 DEF TransactionOK
        <3>4. QED  BY <1>1, <2>1, <3>3 DEF Committed, FreshOK
    <2>4. n \in Nat /\ n + 1 = job[p].next - 1 /\ item = job[p].items[n + 1]
        <3>1. job[p].next \in Nat /\ Len(job[p].items) \in Nat
            BY <1>1, LenProperties DEF JobType
        <3>2. n \in 0..Len(job[p].items) /\ item = job[p].items[n + 1]
            BY <1>1, <1>3 DEF ImportOK, Done
        <3>3. QED  BY <3>1, <3>2
    <2>5. Holds(table, job[p].items, n)
        <3>1. Clear \in Deletes  BY DEF Deletes, Clear
        <3>2. call[p].op # Clear  BY <1>3, <3>1, Kinds
        <3>3. QED  BY <1>1, <1>3, <3>2 DEF RestoreOK, Done
    <2> HIDE DEF item, n
    <2>6. ASSUME NEW c \in Chars
          PROVE  Cardinality(Holding(c, table')) = Count(c, job[p].items, n + 1)
        <3>1. Cardinality(Holding(c, table)) = Count(c, job[p].items, n)
            BY <2>5 DEF Holds, Holding
        <3>2. Cardinality(Holding(c, table')) =
                  Cardinality(Holding(c, table)) + (IF r.char = c THEN 1 ELSE 0)
            BY <2>2, <2>3, Holdings
        <3>3. Count(c, job[p].items, n + 1) =
                  Count(c, job[p].items, n) + (IF item = c THEN 1 ELSE 0)
            BY <2>4, Counts
        <3>4. QED  BY <2>1, <3>1, <3>2, <3>3
    <2>7. QED  BY <2>4, <2>6 DEF Holds, Holding
<1>4. CASE call[p].op \notin Inserts
    <2>1. call[p].op = Clear /\ job[p].next = 1  BY <1>1, <1>2, <1>4 DEF RestoreOK
    <2>2. table' = {}
        <3>1. table \subseteq txn[p].dels
            BY <1>1, <1>2, <2>1 DEF RestoreOK, OwedOK
        <3>2. Clear \in Deletes  BY DEF Deletes, Clear
        <3>3. txn[p].adds = {}  BY <1>1, <2>1, <3>2, Kinds DEF TransactionOK
        <3>4. QED  BY <3>1, <3>3 DEF Committed
    <2>3. job[p].next - 1 = 0 /\ 1..0 = {}  BY <2>1
    <2>4. QED  BY <2>2, <2>3 DEF Holds, Count
<1>5. QED  BY <1>3, <1>4

LEMMA CommitRestores ==
    ASSUME IInv, RestoresOK, NEW p \in Procs, Commit(p)
    PROVE  RestoresOK'
<1>1. /\ In(p, "executed") /\ conn[p] = "open" /\ Committed(p)
      /\ call' = [call EXCEPT ![p] = NoCall] /\ job' = NotAlone(p)
    BY DEF Commit, Returns
<1>2. job'[p] = job[p] /\ \A q \in Procs \ {p} : job'[q] = NotAlone(p)[q]
    BY <1>1, NotAloneFacts
<1>3. call'[p] = NoCall /\ call'[p].op # Clear /\ call'[p].op \notin Inserts
    <2>1. Clear # NoOp  BY DEF Clear, NoOp, Op
    <2>2. QED  BY <1>1, <2>1, Facts, Nothing, Kinds DEF TypeOK
<1>4. RestoreOK(p)'  BY <1>1, <1>2, <1>3, CommitLeaves DEF RestoreOK, Done, Holds
<1>5. QED  BY <1>1, <1>2, <1>4, CommitsRestoreOthers DEF RestoresOK

LEMMA RestoresKeep ==
    ASSUME IInv, RestoresOK, [Next]_vars
    PROVE  RestoresOK'
<1>1. CASE UNCHANGED vars
    BY <1>1 DEF vars, server, RestoresOK, RestoreOK, Holds, Done
<1>2. CASE Next
    <2>1. PICK p \in Procs :
            Call(p) \/ Import(p) \/ Export(p) \/ CallStep(p) \/ JobStep(p) \/ Lose(p) \/ Crash(p)
        BY <1>2 DEF Next
    <2>2. CASE Import(p)  BY <2>2, ImportRestores
    <2>3. CASE ImportItem(p)  BY <2>3, ImportItemRestores
    <2>4. CASE Commit(p)  BY <2>4, CommitRestores
    <2>5. CASE CommitUnanswered(p)  BY <2>5, CommitUnansweredRestores
    <2>6. QED
        BY <2>1, <2>2, <2>3, <2>4, <2>5, OtherStepsRestore DEF CallStep, JobStep
<1>3. QED  BY <1>1, <1>2

\* An import with --clear that comes to its end while no other process changes
\* the table leaves in it what is in the snapshot, whatever was there before
\* and whichever attempts of this and other processes have failed.
THEOREM RestoresComplete == Spec => []RestoreIsComplete
<1>1. Init => RestoresOK
    BY Nothing DEF Init, RestoresOK, RestoreOK
<1>2. IInv /\ RestoresOK => RestoreIsComplete
    <2> SUFFICES ASSUME IInv, RestoresOK, NEW p \in Procs,
                        Importing(p), job[p].next > Len(job[p].items),
                        job[p].clear, job[p].alone
                 PROVE  Holds(table, job[p].items, Len(job[p].items))
        BY DEF RestoreIsComplete
    <2>1. /\ job[p].what = "import" /\ call[p].op = NoOp /\ RestoreOK(p)
          /\ job[p] \in JobType /\ ImportOK(p)
        BY Facts, Nothing DEF Importing, RestoresOK
    <2>2. NoOp # Clear /\ NoOp \notin Inserts  BY Kinds DEF Clear, NoOp, Op
    <2>3. Holds(table, job[p].items, job[p].next - 1)
        BY <2>1, <2>2 DEF RestoreOK, Done
    <2>4. job[p].next - 1 = Len(job[p].items)
        <3>1. job[p].next \in Nat /\ Len(job[p].items) \in Nat
            BY <2>1, LenProperties DEF JobType
        <3>2. job[p].next - 1 \in 0..Len(job[p].items)
            BY <2>1, <2>2 DEF ImportOK, Done
        <3>3. QED  BY <3>1, <3>2
    <2>5. QED  BY <2>3, <2>4
<1>3. QED  BY <1>1, <1>2, RestoresKeep, Invariance, PTL DEF Spec

\* An import with --clear that fails, or whose process is killed, while no
\* other process changes the table leaves in it the beginning of the snapshot,
\* each item once, or the table as it was before the import cleared it.
THEOREM StopsAtPrefix == Spec => StoppedRestoreIsPrefix
<1> DEFINE Ends(p) == /\ job[p].what = "import" /\ job[p].clear /\ job[p].alone
                      /\ job'[p] = NoJob
           Left(p) == \/ Holds(table', job[p].items, job[p].next - 1)
                      \/ /\ call[p].op \in Inserts
                         /\ Holds(table', job[p].items, job[p].next - 2)
                      \/ call[p].op = Op("clear", "any") /\ table' = call[p].there
<1>1. ASSUME IInv, RestoresOK, NEW p \in Procs, Ends(p), UNCHANGED table
      PROVE  Left(p)
    <2>1. RestoreOK(p)  BY <1>1 DEF RestoresOK
    <2>2. QED  BY <1>1, <2>1 DEF RestoreOK, Done, Holds, Clear
<1>2. ASSUME IInv, RestoresOK, NEW p \in Procs, Ends(p), NEW q \in Procs,
             Commit(q) \/ CommitUnanswered(q)
      PROVE  Left(p)
    <2>1. job[p].what = "import" /\ job'[p].what = "none" /\ job[p] \in JobType
        BY <1>2, Facts, Nothing
    <2>2. NotAlone(q)[p].what = "import"
        <3>1. NotAlone(q)[p] = job[p] \/ NotAlone(q)[p] = [job[p] EXCEPT !.alone = FALSE]
            BY <1>2, NotAloneFacts
        <3>2. QED  BY <2>1, <3>1 DEF JobType
    <2>3. CommitUnanswered(q) /\ q = p
        <3>1. ~Commit(q)  BY <2>1, <2>2 DEF Commit
        <3>2. CommitUnanswered(q)  BY <1>2, <3>1
        <3>3. CASE q # p
            <4>1. job' = [NotAlone(q) EXCEPT ![q] = NoJob] /\ NotAlone(q) \in [Procs -> JobType]
                BY <1>2, <3>2, NotAloneFacts DEF CommitUnanswered
            <4>2. job'[p] = NotAlone(q)[p]  BY <3>3, <4>1
            <4>3. QED  BY <2>1, <2>2, <4>2
        <3>4. QED  BY <3>2, <3>3
    <2>4. In(p, "executed") /\ conn[p] = "open" /\ Committed(p)
        BY <2>3 DEF CommitUnanswered
    <2>5. QED  BY <1>2, <2>4, CommitLeaves
<1>3. ASSUME IInv, RestoresOK, [Next]_vars, NEW p \in Procs, Ends(p)
      PROVE  Left(p)
    <2>1. CASE \E q \in Procs : Commit(q) \/ CommitUnanswered(q)
        BY <1>2, <1>3, <2>1
    <2>2. CASE ~\E q \in Procs : Commit(q) \/ CommitUnanswered(q)
        <3>1. CASE UNCHANGED vars  BY <1>1, <1>3, <3>1 DEF vars, server
        <3>2. CASE Next
            <4>1. PICK q \in Procs :
                    \/ Call(q) \/ Import(q) \/ Export(q) \/ Lose(q) \/ Crash(q)
                    \/ ImportItem(q) \/ Imported(q) \/ Truncate(q) \/ Write(q)
                    \/ ConnectFails(q) \/ SendInsert(q) \/ SendRead(q) \/ SendDelete(q)
                    \/ SendInitialize(q) \/ SendFails(q) \/ Delete(q) \/ BrokenConnection(q)
                BY <2>2, <3>2 DEF Next, CallStep, JobStep
            <4>2. UNCHANGED table
                BY <4>1
                DEF Call, Import, Export, Lose, Crash, ImportItem, Imported, Truncate, Write,
                    ConnectFails, SendInsert, SendRead, SendDelete, SendInitialize, SendFails,
                    Delete, BrokenConnection, server
            <4>3. QED  BY <1>1, <1>3, <4>2
        <3>3. QED  BY <1>3, <3>1, <3>2
    <2>3. QED  BY <2>1, <2>2
<1>4. ASSUME IInv, RestoresOK, [Next]_vars
      PROVE  \A p \in Procs : Ends(p) => Left(p)
    BY <1>3, <1>4
<1>5. Init => RestoresOK
    BY Nothing DEF Init, RestoresOK, RestoreOK
<1>6. IInv /\ RestoresOK /\ [Next]_vars =>
        [\A p \in Procs :
            job[p].what = "import" /\ job[p].clear /\ job[p].alone /\ job'[p] = NoJob =>
                \/ Holds(table', job[p].items, job[p].next - 1)
                \/ call[p].op \in Inserts /\ Holds(table', job[p].items, job[p].next - 2)
                \/ call[p].op = Op("clear", "any") /\ table' = call[p].there]_vars
    BY <1>4
<1> HIDE DEF Ends, Left
<1>7. QED  BY <1>5, <1>6, RestoresKeep, Invariance, PTL DEF Spec, StoppedRestoreIsPrefix
=============================================================================
