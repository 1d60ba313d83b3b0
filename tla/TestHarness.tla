----------------------------- MODULE TestHarness -----------------------------
(* falcon-test.  For each suite autotuner the tool picks the test states    *)
(* that are entries, generates the states __init, __loop, __begin,          *)
(* __dispatch, __end and __finish around them, and runs the suite on the    *)
(* Interpreter: a state ends with a transition, with terminal, or with an   *)
(* exception.  The generated states count with a TestRunner, and make a     *)
(* TestContext for each test, which collects its failed expectations.       *)
EXTENDS Naturals, Sequences, FiniteSets, SequencesExt

CONSTANTS
    Suites,     \* the suites, one in each file, in the order they are run
    Tests,      \* Tests[s]: the states of s whose name starts with test_, in order
    States,     \* all the states users write, setup and teardown among them
    Goes,       \* Goes[s][q]: where the state q of s may go, or end: "terminal", "throw"
    Fixtures    \* Fixtures[s]: which of setup and teardown s has

Ends == {"terminal", "throw"}
Generated == {"__init", "__loop", "__begin", "__dispatch", "__end", "__finish"}

ASSUME SuitesAssumption ==
    /\ {"setup", "teardown"} \subseteq States
    /\ States \cap (Generated \cup Ends \cup {"none"}) = {}
    /\ \A i \in DOMAIN Suites :
        /\ Tests[Suites[i]] \in Seq(States \ {"setup", "teardown"})
        /\ Goes[Suites[i]] \in [States -> SUBSET (States \cup Generated \cup Ends)]
        /\ \A q \in States : Goes[Suites[i]][q] # {}
        /\ Fixtures[Suites[i]] \subseteq {"setup", "teardown"}

VARIABLES
    at,         \* the index of the suite that is run
    state,      \* its current state; "none" between suites
    names,      \* TestRunner: test_names
    results,    \* results
    current,    \* current_idx, which counts from 0
    context,    \* the TestContext: the name of the test, and its failures
    total,      \* total_failed
    exit,       \* the exit code, or "running"
    history     \* the tests begun, those in which an expectation failed, and the
                \* suites that terminal cut short

runner == <<names, results, current>>
vars == <<at, state, runner, context, total, exit, history>>

NoContext == [name |-> "none", failed |-> FALSE]

Init ==
    /\ at = 1 /\ state = "none"
    /\ names = <<>> /\ results = <<>> /\ current = 0
    /\ context = NoContext
    /\ total = 0 /\ exit = "running"
    /\ history = [begun |-> {}, bad |-> {}, cut |-> {}]

Suite == Suites[at]

-----------------------------------------------------------------------------
(* Discovery. *)

Targets(s) == UNION {Goes[s][q] : q \in States}

\* The entries: a test state that any state of the suite goes to, itself
\* included, is taken for the continuation of another test.
Entries(s) == Range(Tests[s]) \ Targets(s)

\* The entries in the order in which the file has them.
Listings(s) ==
    {list \in [1..Cardinality(Entries(s)) -> Entries(s)] :
        /\ Range(list) = Entries(s)
        /\ \A i, j \in DOMAIN list : i < j =>
               \E k, l \in DOMAIN Tests[s] :
                   k < l /\ Tests[s][k] = list[i] /\ Tests[s][l] = list[j]}

\* What the suites owe: their names differ, and those of the states of each;
\* setup hands over to the generated states, and the other states to each other
\* and to __end.
FollowsProtocol ==
    /\ Len(Suites) \in Nat /\ DOMAIN Suites = 1..Len(Suites)
    /\ \A i, j \in DOMAIN Suites : Suites[i] = Suites[j] => i = j
    /\ \A i \in DOMAIN Suites : IsInjective(Tests[Suites[i]])
    /\ \A i \in DOMAIN Suites : \A q \in States :
           Goes[Suites[i]][q] \subseteq Ends \cup
               IF q = "setup" THEN {"__begin"} ELSE (States \ {"setup"}) \cup {"__end"}

\* A suite without entries is left out.
Skip ==
    /\ exit = "running" /\ state = "none" /\ at <= Len(Suites)
    /\ Entries(Suite) = {}
    /\ at' = at + 1
    /\ UNCHANGED <<state, runner, context, total, exit, history>>

\* The generated file does not load.
LoadFails ==
    /\ exit = "running" /\ state = "none" /\ at <= Len(Suites)
    /\ exit' = "load error"
    /\ UNCHANGED <<at, state, runner, context, total, history>>

Start ==
    /\ exit = "running" /\ state = "none" /\ at <= Len(Suites)
    /\ Entries(Suite) # {}
    /\ state' = "__init"
    /\ UNCHANGED <<at, runner, context, total, exit, history>>

-----------------------------------------------------------------------------
(* Generated states. *)

In(q) == exit = "running" /\ state = q

InitState ==
    /\ In("__init")
    /\ names' \in Listings(Suite) /\ results' = <<>> /\ current' = 0
    /\ state' = "__loop"
    /\ UNCHANGED <<at, context, total, exit, history>>

HasNext == current < Len(names)

Loop ==
    /\ In("__loop")
    /\ state' = IF ~HasNext THEN "__finish"
               ELSE IF "setup" \in Fixtures[Suite] THEN "setup"
               ELSE "__begin"
    /\ UNCHANGED <<at, runner, context, total, exit, history>>

CurrentName == IF HasNext THEN names[current + 1] ELSE "none"

\* Fault: the context of the test before is used again.
BeginSameContext ==
    /\ In("__begin")
    /\ context' = [context EXCEPT !.name = CurrentName]
    /\ history' = [history EXCEPT !.begun = @ \cup {<<Suite, CurrentName>>}]
    /\ state' = "__dispatch"
    /\ UNCHANGED <<at, runner, total, exit>>

\* BeginCurrent.
Begin ==
    /\ In("__begin")
    /\ context' = [name |-> CurrentName, failed |-> FALSE]
    /\ history' = [history EXCEPT !.begun = @ \cup {<<Suite, CurrentName>>}]
    /\ state' = "__dispatch"
    /\ UNCHANGED <<at, runner, total, exit>>

Dispatch ==
    /\ In("__dispatch")
    /\ IF CurrentName \in Range(names)
       THEN state' = CurrentName /\ UNCHANGED context
       ELSE /\ state' = IF "teardown" \in Fixtures[Suite] THEN "teardown" ELSE "__end"
            /\ context' = [context EXCEPT !.failed = TRUE]
    /\ UNCHANGED <<at, runner, total, exit, history>>

\* Fault: the index does not advance.
EndStays ==
    /\ In("__end")
    /\ results' = Append(results, ~context.failed)
    /\ state' = "__loop"
    /\ UNCHANGED <<at, names, current, context, total, exit, history>>

\* Fault: the end of the test is not recorded.
EndForgets ==
    /\ In("__end")
    /\ state' = "__loop"
    /\ UNCHANGED <<at, runner, context, total, exit, history>>

\* EndCurrent.
End ==
    /\ In("__end")
    /\ results' = Append(results, ~context.failed)
    /\ current' = current + 1
    /\ state' = "__loop"
    /\ UNCHANGED <<at, names, context, total, exit, history>>

PassedCount == Cardinality({i \in DOMAIN results : results[i]})
FailedCount == Len(names) - PassedCount

\* The suite has ended and its outputs are read: failed is 0 until __finish.
Ended(failed) ==
    /\ total' = total + failed
    /\ at' = at + 1
    /\ state' = "none"
    /\ names' = <<>> /\ results' = <<>> /\ current' = 0
    /\ context' = NoContext

Finish ==
    /\ In("__finish")
    /\ Ended(FailedCount)
    /\ UNCHANGED <<exit, history>>

-----------------------------------------------------------------------------
(* States that users write.  setup is not given the context. *)

\* Fault: an exception ends the suite only.
BodyCaught(q) ==
    /\ In(q)
    /\ \E fails \in IF q = "setup" THEN {FALSE} ELSE BOOLEAN, goes \in Goes[Suite][q] :
        /\ history' = [history EXCEPT
               !.bad = IF fails THEN @ \cup {<<Suite, context.name>>} ELSE @,
               !.cut = IF goes = "terminal" THEN @ \cup {Suite} ELSE @]
        /\ IF goes \in Ends THEN Ended(0)
           ELSE /\ state' = goes
                /\ context' = [context EXCEPT !.failed = @ \/ fails]
                /\ UNCHANGED <<at, runner, total>>
    /\ UNCHANGED exit

Body(q) ==
    /\ In(q)
    /\ \E fails \in IF q = "setup" THEN {FALSE} ELSE BOOLEAN, goes \in Goes[Suite][q] :
        /\ history' = [history EXCEPT
               !.bad = IF fails THEN @ \cup {<<Suite, context.name>>} ELSE @,
               !.cut = IF goes = "terminal" THEN @ \cup {Suite} ELSE @]
        /\ \/ /\ goes \in States \cup Generated
              /\ state' = goes
              /\ context' = [context EXCEPT !.failed = @ \/ fails]
              /\ UNCHANGED <<at, runner, total, exit>>
           \/ /\ goes = "terminal"
              /\ Ended(0)
              /\ UNCHANGED exit
           \/ /\ goes = "throw"
              /\ exit' = "failed"
              /\ UNCHANGED <<at, state, runner, context, total>>

Exit ==
    /\ exit = "running" /\ at > Len(Suites)
    /\ exit' = IF total = 0 THEN "passed" ELSE "failed"
    /\ UNCHANGED <<at, state, runner, context, total, history>>

Harness ==
    \/ Skip \/ Start \/ InitState \/ Loop \/ Begin \/ Dispatch \/ End \/ Finish \/ Exit
    \/ \E q \in States : Body(q)

Next == Harness \/ LoadFails

\* One thread, which nothing blocks.
Spec == Init /\ [][Next]_vars /\ WF_vars(Harness)

-----------------------------------------------------------------------------
(* Properties. *)

TypeOK ==
    /\ at \in 1..(Len(Suites) + 1)
    /\ state \in States \cup Generated \cup {"none"}
    /\ names \in Seq(States)
    /\ results \in Seq(BOOLEAN)
    /\ current = Len(results)           \* PrintSummary reads results[i] for each name
    /\ state \notin {"none", "__init"} => current <= Len(names)
    /\ state = "__finish" => current = Len(names)
    /\ context \in [name : States \cup {"none"}, failed : BOOLEAN]
    /\ total \in Nat
    /\ exit \in {"running", "passed", "failed", "load error"}

\* The result of a test says whether one of its own expectations failed: what
\* another test reports never counts for it.
FailuresStayWithTests ==
    \A i \in DOMAIN results : results[i] <=> <<Suite, names[i]>> \notin history.bad

\* falcon-test exits with 0 only if, of every suite that no terminal cut short,
\* each test state was run as a test and no expectation failed in it, unless some
\* state of the suite goes to it: of those nothing says that they were run.
ZeroMeansAllPassed ==
    exit = "passed" =>
        \A i \in {j \in DOMAIN Suites : Suites[j] \notin history.cut} : \A t \in Range(Tests[Suites[i]]) :
            \/ <<Suites[i], t>> \in history.begun \ history.bad
            \/ \E q \in States : t \in Goes[Suites[i]][q]

\* If no user state is entered again and again, falcon-test exits.
HarnessEnds == <>(exit # "running")
=============================================================================
