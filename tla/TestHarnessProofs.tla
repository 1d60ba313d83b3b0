-------------------------- MODULE TestHarnessProofs --------------------------
(* Proofs about falcon-test, for any suites that follow the protocol of the *)
(* library: whatever tests fail, throw or end the suite, the runner records *)
(* for each test whether one of its own expectations failed, and the exit   *)
(* code is 0 only if all of them passed.                                    *)
EXTENDS TestHarness, SequenceTheorems, FiniteSetTheorems, TLAPS

-----------------------------------------------------------------------------
(* The inductive invariant. *)

\* The states in which a test is in progress, and those before the first one.
Tested == {"__dispatch", "__end"} \cup (States \ {"setup"})
Between == {"none", "__init"}

Test(j) == <<Suite, names[j]>>

HistoryOK == history = [begun |-> history.begun, bad |-> history.bad, cut |-> history.cut]

PlaceOK ==
    /\ state \in Between => names = <<>> /\ results = <<>> /\ current = 0
    /\ state # "none" => at \in DOMAIN Suites
    /\ state \notin Between => names \in Listings(Suite) /\ current <= Len(names)
    /\ state \in {"setup", "__begin"} \cup Tested => current < Len(names)

\* An exception leaves the last test with a context that nobody reads.
ContextOK ==
    exit = "running" /\ state \in Tested =>
        /\ context.name = names[current + 1]
        /\ context.failed <=> Test(current + 1) \in history.bad
        /\ Test(current + 1) \in history.begun

ResultsOK ==
    \A j \in 1..current :
        /\ Test(j) \in history.begun
        /\ results[j] <=> Test(j) \notin history.bad

\* No failure is known of a test that has not begun.
AheadOK ==
    /\ \A k \in DOMAIN Suites, t \in States :
           k > at \/ (k = at /\ state \in Between) => <<Suites[k], t>> \notin history.bad
    /\ \A j \in DOMAIN names :
           j > current /\ ~(j = current + 1 /\ state \in Tested) => Test(j) \notin history.bad

PastOK ==
    total = 0 =>
        \A k \in DOMAIN Suites : k < at /\ Suites[k] \notin history.cut =>
            \A t \in Entries(Suites[k]) :
                <<Suites[k], t>> \in history.begun \ history.bad

ExitOK == exit = "passed" => total = 0 /\ at > Len(Suites)

IInv ==
    /\ TypeOK /\ HistoryOK /\ PlaceOK /\ ContextOK /\ ResultsOK /\ AheadOK
    /\ PastOK /\ ExitOK

-----------------------------------------------------------------------------
(* Facts about one state. *)

\* The places of a suite are different from each other.
LEMMA Places ==
    /\ "setup" \in States /\ "teardown" \in States
    /\ \A q \in Generated \cup Ends \cup {"none"} : q \notin States
    /\ "setup" \notin Tested /\ "none" \notin Tested
    /\ \A q \in {"__init", "__loop", "__begin", "__finish"} : q \notin Tested
BY SuitesAssumption DEF Tested, Generated

\* A listing of the entries names test states, each of them once.
LEMMA ListingFacts ==
    ASSUME FollowsProtocol, NEW i \in DOMAIN Suites, NEW list \in Listings(Suites[i])
    PROVE  /\ list \in Seq(States \ {"setup"})
           /\ \A j, k \in DOMAIN list : list[j] = list[k] => j = k
<1> DEFINE tests == Tests[Suites[i]]
           entries == Entries(Suites[i])
           n == Cardinality(entries)
<1>1. tests \in Seq(States \ {"setup", "teardown"})  BY SuitesAssumption
<1>2. /\ Len(tests) \in Nat /\ DOMAIN tests = 1..Len(tests)
      /\ tests \in [1..Len(tests) -> States \ {"setup", "teardown"}]
    BY <1>1, LenProperties
<1>3. IsInjective(tests)  BY DEF FollowsProtocol
<1>4. n \in Nat
    <2> DEFINE images == {tests[k] : k \in 1..Len(tests)}
    <2>1. IsFiniteSet(1..Len(tests))
        <3>1. 1 \in Int /\ Len(tests) \in Int  BY <1>2
        <3>2. QED  BY <3>1, FS_Interval, Zenon
    <2>2. IsFiniteSet(images)
        <3>1. tests \in Surjection(1..Len(tests), images)  BY <1>2 DEF Surjection
        <3> HIDE DEF tests, images
        <3>2. QED  BY <2>1, <3>1, FS_Surjection
    <2>3. entries \subseteq images  BY <1>2 DEF Entries, Range
    <2> HIDE DEF images, entries
    <2>4. IsFiniteSet(entries)  BY <2>2, <2>3, FS_Subset
    <2>5. QED  BY <2>4, FS_CardinalityType
<1>5. /\ list \in [1..n -> entries]
      /\ \A j, k \in DOMAIN list : j < k =>
             \E l, m \in DOMAIN tests : l < m /\ tests[l] = list[j] /\ tests[m] = list[k]
    BY DEF Listings
<1>6. entries \subseteq States \ {"setup"}  BY <1>2 DEF Entries, Range
<1> HIDE DEF tests, entries, n
<1>7. list \in Seq(States \ {"setup"})
    <2>1. list \in [1..n -> States \ {"setup"}]  BY <1>5, <1>6
    <2>2. QED  BY <1>4, <2>1, SeqDef
<1>8. ASSUME NEW j \in DOMAIN list, NEW k \in DOMAIN list, j < k
      PROVE  list[j] # list[k]
    <2>1. PICK l \in DOMAIN tests, m \in DOMAIN tests :
              l < m /\ tests[l] = list[j] /\ tests[m] = list[k]
        BY <1>5, <1>8
    <2>2. l # m  BY <1>2, <2>1
    <2>3. QED  BY <1>3, <2>1, <2>2 DEF IsInjective
<1>9. \A j, k \in DOMAIN list : j \in Int /\ k \in Int  BY <1>4, <1>5
<1>10. \A j, k \in DOMAIN list : list[j] = list[k] => j = k
    <2> SUFFICES ASSUME NEW j \in DOMAIN list, NEW k \in DOMAIN list, list[j] = list[k]
                 PROVE  j = k
        OBVIOUS
    <2>1. ~(j < k) /\ ~(k < j)  BY <1>8
    <2>2. QED  BY <1>9, <2>1
<1>11. QED  BY <1>7, <1>10

LEMMA SuiteFacts ==
    ASSUME FollowsProtocol, IInv, state # "none"
    PROVE  /\ at \in DOMAIN Suites /\ at \in Nat /\ at + 1 \in 1..(Len(Suites) + 1)
           /\ \A list \in Listings(Suite) :
                  /\ list \in Seq(States \ {"setup"})
                  /\ \A j, k \in DOMAIN list : list[j] = list[k] => j = k
           /\ Goes[Suite]["setup"] \subseteq {"__begin"} \cup Ends
           /\ \A q \in States \ {"setup"} :
                  Goes[Suite][q] \subseteq (States \ {"setup"}) \cup {"__end"} \cup Ends
           /\ \A k \in DOMAIN Suites : Suites[k] = Suite => k = at
<1>1. at \in DOMAIN Suites  BY DEF IInv, PlaceOK
<1>2. at \in Nat /\ at + 1 \in 1..(Len(Suites) + 1)  BY <1>1 DEF FollowsProtocol
<1>3. \A list \in Listings(Suite) :
          /\ list \in Seq(States \ {"setup"})
          /\ \A j, k \in DOMAIN list : list[j] = list[k] => j = k
    BY <1>1, ListingFacts DEF Suite
<1>4. /\ Goes[Suite]["setup"] \subseteq {"__begin"} \cup Ends
      /\ \A q \in States \ {"setup"} :
             Goes[Suite][q] \subseteq (States \ {"setup"}) \cup {"__end"} \cup Ends
    BY <1>1, Places DEF FollowsProtocol, Suite
<1>5. \A k \in DOMAIN Suites : Suites[k] = Suite => k = at
    BY <1>1 DEF FollowsProtocol, Suite
<1>6. QED  BY <1>1, <1>2, <1>3, <1>4, <1>5

LEMMA NamesFacts ==
    ASSUME FollowsProtocol, IInv, state \notin Between
    PROVE  /\ names \in Seq(States \ {"setup"}) /\ Len(names) \in Nat
           /\ DOMAIN names = 1..Len(names)
           /\ \A j \in 1..Len(names) : names[j] \in States \ {"setup"}
           /\ \A j, k \in 1..Len(names) : names[j] = names[k] => j = k
           /\ current \in Nat /\ current <= Len(names)
<1>1. names \in Listings(Suite) /\ current <= Len(names)  BY DEF IInv, PlaceOK
<1>2. state # "none"  BY DEF Between
<1>3. names \in Seq(States \ {"setup"})  BY <1>1, <1>2, SuiteFacts
<1>4. Len(names) \in Nat /\ DOMAIN names = 1..Len(names)  BY <1>3, LenProperties
<1>5. current \in Nat  BY LenProperties DEF IInv, TypeOK
<1>6. \A j \in 1..Len(names) : names[j] \in States \ {"setup"}  BY <1>3, ElementOfSeq
<1>7. QED  BY <1>1, <1>2, <1>3, <1>4, <1>5, <1>6, SuiteFacts

\* The runner counts the tests that passed among those it has results of.
LEMMA Counting ==
    ASSUME results \in Seq(BOOLEAN), Len(names) \in Nat, Len(results) <= Len(names)
    PROVE  /\ FailedCount \in Nat
           /\ Len(results) = Len(names) /\ FailedCount = 0 =>
                  \A j \in DOMAIN results : results[j]
<1> DEFINE passing == {i \in DOMAIN results : results[i]}
<1>1. DOMAIN results = 1..Len(results) /\ Len(results) \in Nat  BY LenProperties
<1>2. IsFiniteSet(1..Len(results)) /\ Cardinality(1..Len(results)) = Len(results)
    <2>1. ASSUME NEW n \in Nat PROVE IsFiniteSet(1..n) /\ Cardinality(1..n) = n
        <3>1. 1 \in Int /\ n \in Int  OBVIOUS
        <3>2. IsFiniteSet(1..n) /\ Cardinality(1..n) = IF 1 > n THEN 0 ELSE n - 1 + 1
            BY <3>1, FS_Interval, Zenon
        <3>3. QED  BY <3>2
    <2>2. QED  BY <1>1, <2>1
<1>3. passing \subseteq 1..Len(results)  BY <1>1
<1>4. /\ Cardinality(passing) \in Nat
      /\ Cardinality(passing) <= Len(results)
      /\ Cardinality(passing) = Len(results) => passing = 1..Len(results)
    BY <1>2, <1>3, FS_Subset, FS_CardinalityType
<1>5. FailedCount = Len(names) - Cardinality(passing)  BY DEF FailedCount, PassedCount
<1> HIDE DEF passing
<1>6. FailedCount \in Nat /\ (Len(results) = Len(names) /\ FailedCount = 0 =>
                                  passing = 1..Len(results))
    BY <1>1, <1>4, <1>5
<1>7. QED  BY <1>1, <1>6 DEF passing

-----------------------------------------------------------------------------
(* The generated states. *)

LEMMA InitInvariant ==
    ASSUME FollowsProtocol, Init
    PROVE  IInv
<1>1. Len(Suites) \in Nat /\ at = 1 /\ state = "none"  BY DEF FollowsProtocol, Init
<1>2. /\ names = <<>> /\ results = <<>> /\ current = 0
      /\ names \in Seq(States) /\ results \in Seq(BOOLEAN) /\ Len(results) = 0
    BY EmptySeq DEF Init
<1>3. TypeOK  BY <1>1, <1>2 DEF Init, TypeOK, NoContext
<1>4. HistoryOK  BY DEF Init, HistoryOK
<1>5. PlaceOK /\ ContextOK /\ ResultsOK
    BY <1>1, <1>2, Places DEF PlaceOK, ContextOK, ResultsOK, Between
<1>6. AheadOK  BY <1>2 DEF AheadOK, Init
<1>7. PastOK /\ ExitOK  BY <1>1 DEF PastOK, ExitOK, Init, FollowsProtocol
<1>8. QED  BY <1>3, <1>4, <1>5, <1>6, <1>7 DEF IInv

\* What a step that does not touch the exit code nor the past keeps.
LEMMA QuietKeeps ==
    ASSUME IInv, UNCHANGED <<at, total, exit, history>>
    PROVE  HistoryOK' /\ PastOK' /\ ExitOK'
BY DEF IInv, HistoryOK, PastOK, ExitOK

LEMMA StartKeeps ==
    ASSUME FollowsProtocol, IInv, Start
    PROVE  IInv'
<1>1. /\ state = "none" /\ state' = "__init" /\ at <= Len(Suites) /\ at \in Nat \ {0}
      /\ UNCHANGED <<at, names, results, current, context, total, exit, history>>
    BY DEF Start, runner, IInv, TypeOK, FollowsProtocol
<1>2. TypeOK'  BY <1>1 DEF IInv, TypeOK, Generated
<1>3. PlaceOK'
    BY <1>1, Places DEF IInv, PlaceOK, Between, FollowsProtocol
<1>4. ContextOK' /\ ResultsOK' /\ AheadOK'
    BY <1>1, Places DEF IInv, PlaceOK, ContextOK, ResultsOK, AheadOK, Between, Test, Suite
<1>5. QED  BY <1>1, <1>2, <1>3, <1>4, QuietKeeps DEF IInv

LEMMA InitStateKeeps ==
    ASSUME FollowsProtocol, IInv, InitState
    PROVE  IInv'
<1>1. /\ state = "__init" /\ state' = "__loop"
      /\ names' \in Listings(Suite) /\ results' = <<>> /\ current' = 0
      /\ UNCHANGED <<at, context, total, exit, history>>
    BY DEF InitState, In
<1>2. /\ at \in DOMAIN Suites
      /\ names' \in Seq(States \ {"setup"})
    BY <1>1, SuiteFacts
<1>3. /\ names' \in Seq(States) /\ Len(names') \in Nat
      /\ \A j \in DOMAIN names' : names'[j] \in States
    BY <1>2, LenProperties, ElementOfSeq, SeqMonotonic
<1>4. results' \in Seq(BOOLEAN) /\ Len(results') = 0  BY <1>1, EmptySeq
<1>5. TypeOK'
    <2>1. current' <= Len(names') /\ current' = Len(results')  BY <1>1, <1>3, <1>4
    <2>2. state' \in Generated /\ state' # "__finish"  BY <1>1 DEF Generated
    <2>3. QED  BY <1>1, <1>3, <1>4, <2>1, <2>2 DEF IInv, TypeOK
<1>6. PlaceOK'
    BY <1>1, <1>2, <1>3, Places DEF IInv, PlaceOK, Between, Suite
<1>7. ContextOK' /\ ResultsOK'  BY <1>1, Places DEF ContextOK, ResultsOK
<1>8. AheadOK'
    BY <1>1, <1>2, <1>3 DEF IInv, AheadOK, Between, Test, Suite
<1>9. QED  BY <1>1, <1>5, <1>6, <1>7, <1>8, QuietKeeps DEF IInv

LEMMA LoopKeeps ==
    ASSUME FollowsProtocol, IInv, Loop
    PROVE  IInv'
<1>1. /\ state = "__loop" /\ state' \in {"__finish", "setup", "__begin"}
      /\ state' = "__finish" <=> ~HasNext
      /\ UNCHANGED <<at, names, results, current, context, total, exit, history>>
    BY DEF Loop, In, runner
<1>2. /\ state \notin Between /\ state \notin Tested
      /\ state' \notin Between /\ state' \notin Tested
    BY <1>1, Places DEF Between, Tested
<1>3. Len(names) \in Nat /\ current \in Nat /\ current <= Len(names)
    BY <1>2, NamesFacts
<1>4. TypeOK'
    <2>1. state' \in States \cup Generated \cup {"none"}
        BY <1>1, Places DEF Generated
    <2>2. state' = "__finish" => current = Len(names)  BY <1>1, <1>3 DEF HasNext
    <2>3. QED  BY <1>1, <1>3, <2>1, <2>2 DEF IInv, TypeOK
<1>5. PlaceOK'
    <2>1. state' # "__finish" => current < Len(names)  BY <1>1 DEF HasNext
    <2>2. QED  BY <1>1, <1>2, <2>1 DEF IInv, PlaceOK, Between, Suite
<1>6. ContextOK'  BY <1>2 DEF ContextOK
<1>7. ResultsOK' /\ AheadOK'
    BY <1>1, <1>2 DEF IInv, ResultsOK, AheadOK, Test, Suite
<1>8. QED  BY <1>1, <1>4, <1>5, <1>6, <1>7, QuietKeeps DEF IInv

LEMMA BeginKeeps ==
    ASSUME FollowsProtocol, IInv, Begin
    PROVE  IInv'
<1>1. /\ state = "__begin" /\ state' = "__dispatch"
      /\ context' = [name |-> CurrentName, failed |-> FALSE]
      /\ history' = [history EXCEPT !.begun = @ \cup {<<Suite, CurrentName>>}]
      /\ UNCHANGED <<at, names, results, current, total, exit>>
    BY DEF Begin, In, runner
<1>2. /\ state \notin Between /\ state' \notin Between
      /\ state \notin Tested /\ state' \in Tested
    BY <1>1, Places DEF Between, Tested
<1>3. /\ Len(names) \in Nat /\ current \in Nat /\ DOMAIN names = 1..Len(names)
      /\ \A j \in 1..Len(names) : names[j] \in States
    BY <1>2, NamesFacts
<1>4. current < Len(names)  BY <1>1 DEF IInv, PlaceOK
<1>5. CurrentName = names[current + 1] /\ current + 1 \in 1..Len(names)
    BY <1>3, <1>4 DEF CurrentName, HasNext
<1>6. /\ history'.begun = history.begun \cup {Test(current + 1)}
      /\ history'.bad = history.bad /\ history'.cut = history.cut
      /\ HistoryOK'
    BY <1>1, <1>5 DEF IInv, HistoryOK, Test
<1>7. TypeOK'
    BY <1>1, <1>3, <1>4, <1>5 DEF IInv, TypeOK, Generated
<1>8. PlaceOK'  BY <1>1, <1>2, <1>4 DEF IInv, PlaceOK, Suite
<1>9. Test(current + 1) \notin history.bad
    BY <1>2, <1>3, <1>5 DEF IInv, AheadOK
<1>10. ContextOK'
    BY <1>1, <1>5, <1>6, <1>9 DEF ContextOK, Test, Suite
<1>11. ResultsOK' /\ AheadOK'
    BY <1>1, <1>2, <1>6 DEF IInv, ResultsOK, AheadOK, Test, Suite
<1>12. PastOK' /\ ExitOK'  BY <1>1, <1>6 DEF IInv, PastOK, ExitOK
<1>13. QED  BY <1>6, <1>7, <1>8, <1>10, <1>11, <1>12 DEF IInv

\* The suite is in the past: what is known of its tests is what counts.
LEMMA EndedKeeps ==
    ASSUME FollowsProtocol, IInv, state # "none", exit = "running",
           NEW failed \in Nat, Ended(failed), UNCHANGED exit, HistoryOK',
           history'.begun = history.begun, history.cut \subseteq history'.cut,
           \A k \in DOMAIN Suites : k # at =>
               \A t : <<Suites[k], t>> \in history'.bad <=> <<Suites[k], t>> \in history.bad,
           failed = 0 /\ Suite \notin history'.cut =>
               \A t \in Entries(Suite) : <<Suite, t>> \in history'.begun \ history'.bad
    PROVE  IInv'
<1>1. /\ total' = total + failed /\ at' = at + 1 /\ state' = "none"
      /\ names' = <<>> /\ results' = <<>> /\ current' = 0 /\ context' = NoContext
      /\ at \in DOMAIN Suites /\ at \in Nat /\ at' \in 1..(Len(Suites) + 1)
    BY SuiteFacts DEF Ended
<1>2. /\ names' \in Seq(States) /\ results' \in Seq(BOOLEAN) /\ Len(results') = 0
      /\ DOMAIN names' = {}
    BY <1>1, EmptySeq
<1>3. total \in Nat  BY DEF IInv, TypeOK
<1>4. TypeOK'
    BY <1>1, <1>2, <1>3 DEF IInv, TypeOK, NoContext
<1>5. PlaceOK' /\ ContextOK' /\ ResultsOK'
    BY <1>1, Places DEF PlaceOK, ContextOK, ResultsOK, Between, Tested
<1>6. AheadOK'
    <2>1. ASSUME NEW k \in DOMAIN Suites, NEW t \in States, k > at' \/ k = at'
          PROVE  <<Suites[k], t>> \notin history'.bad
        <3>1. k > at  BY <1>1, <2>1 DEF FollowsProtocol
        <3>2. <<Suites[k], t>> \notin history.bad  BY <3>1 DEF IInv, AheadOK
        <3>3. QED  BY <1>1, <3>1, <3>2
    <2>2. QED  BY <1>2, <2>1 DEF AheadOK
<1>7. PastOK'
    <2> SUFFICES ASSUME total' = 0, NEW k \in DOMAIN Suites, k < at', Suites[k] \notin history'.cut,
                        NEW t \in Entries(Suites[k])
                 PROVE  <<Suites[k], t>> \in history'.begun \ history'.bad
        BY DEF PastOK
    <2>1. total = 0 /\ failed = 0  BY <1>1, <1>3
    <2>2. CASE k = at  BY <2>1, <2>2 DEF Suite
    <2>3. CASE k # at
        <3>1. k < at  BY <1>1, <2>3 DEF FollowsProtocol
        <3>2. QED  BY <2>1, <2>3, <3>1 DEF IInv, PastOK
    <2>4. QED  BY <2>2, <2>3
<1>8. ExitOK'  BY DEF ExitOK
<1>9. QED  BY <1>4, <1>5, <1>6, <1>7, <1>8 DEF IInv

LEMMA DispatchKeeps ==
    ASSUME FollowsProtocol, IInv, Dispatch
    PROVE  IInv'
<1>1. /\ state = "__dispatch" /\ exit = "running"
      /\ UNCHANGED <<at, names, results, current, total, exit, history>>
    BY DEF Dispatch, In, runner
<1>2. state \notin Between /\ state \in Tested  BY <1>1 DEF Between, Tested
<1>3. /\ Len(names) \in Nat /\ current \in Nat /\ DOMAIN names = 1..Len(names)
      /\ \A j \in 1..Len(names) : names[j] \in States \ {"setup"}
    BY <1>2, NamesFacts
<1>4. current < Len(names)  BY <1>2 DEF IInv, PlaceOK
<1>5. CurrentName = names[current + 1] /\ current + 1 \in DOMAIN names
    BY <1>3, <1>4 DEF CurrentName, HasNext
<1>6. CurrentName \in Range(names)  BY <1>5 DEF Range
<1>7. state' = names[current + 1] /\ context' = context
    BY <1>5, <1>6 DEF Dispatch
<1>8. /\ state' \in States \ {"setup"} /\ state' \in Tested
      /\ state' \notin Between \cup Generated
    BY <1>3, <1>5, <1>7, Places DEF Tested, Between
<1>9. TypeOK'
    <2>1. state' # "__finish"  BY <1>8 DEF Generated
    <2>2. current' <= Len(names')  BY <1>1, <1>3, <1>4
    <2>3. QED  BY <1>1, <1>7, <1>8, <2>1, <2>2 DEF IInv, TypeOK
<1>10. PlaceOK'
    BY <1>1, <1>2, <1>4, <1>8 DEF IInv, PlaceOK, Suite
<1>11. ContextOK' /\ ResultsOK' /\ AheadOK'
    BY <1>1, <1>2, <1>7, <1>8 DEF IInv, ContextOK, ResultsOK, AheadOK, Test, Suite
<1>12. QED  BY <1>1, <1>9, <1>10, <1>11, QuietKeeps DEF IInv

LEMMA EndKeeps ==
    ASSUME FollowsProtocol, IInv, End
    PROVE  IInv'
<1>1. /\ state = "__end" /\ state' = "__loop" /\ exit = "running"
      /\ results' = Append(results, ~context.failed) /\ current' = current + 1
      /\ UNCHANGED <<at, names, context, total, exit, history>>
    BY DEF End, In
<1>2. /\ state \notin Between /\ state \in Tested
      /\ state' \notin Between /\ state' \notin Tested
    BY <1>1, Places DEF Between, Tested
<1>3. /\ Len(names) \in Nat /\ current \in Nat /\ DOMAIN names = 1..Len(names)
    BY <1>2, NamesFacts
<1>4. current < Len(names)  BY <1>2 DEF IInv, PlaceOK
<1>5. /\ results \in Seq(BOOLEAN) /\ current = Len(results)
      /\ context.failed \in BOOLEAN
    BY DEF IInv, TypeOK
<1>6. /\ results' \in Seq(BOOLEAN) /\ Len(results') = current'
      /\ \A j \in 1..current : results'[j] = results[j]
      /\ results'[current + 1] = ~context.failed
    BY <1>1, <1>5, AppendProperties
<1>7. TypeOK'
    <2>1. state' \in Generated /\ state' # "__finish"  BY <1>1 DEF Generated
    <2>2. current' <= Len(names')  BY <1>1, <1>3, <1>4
    <2>3. QED  BY <1>1, <1>6, <2>1, <2>2 DEF IInv, TypeOK
<1>8. PlaceOK'
    <2>1. state' # "none" /\ state' \notin {"setup", "__begin"}  BY <1>1
    <2>2. current' <= Len(names')  BY <1>1, <1>3, <1>4
    <2>3. QED  BY <1>1, <1>2, <2>1, <2>2 DEF IInv, PlaceOK, Suite
<1>9. ContextOK'  BY <1>2 DEF ContextOK
<1>10. ResultsOK'
    <2> SUFFICES ASSUME NEW j \in 1..(current + 1)
                 PROVE  /\ Test(j) \in history.begun
                        /\ results'[j] <=> Test(j) \notin history.bad
        BY <1>1 DEF ResultsOK, Test, Suite
    <2>1. CASE j = current + 1
        BY <1>1, <1>2, <1>6, <2>1 DEF IInv, ContextOK
    <2>2. CASE j # current + 1
        <3>1. j \in 1..current  BY <1>3, <2>2
        <3>2. QED  BY <1>6, <3>1 DEF IInv, ResultsOK
    <2>3. QED  BY <2>1, <2>2
<1>11. AheadOK'
    <2>1. \A j \in DOMAIN names : j > current + 1 => Test(j) \notin history.bad
        BY <1>2, <1>3 DEF IInv, AheadOK
    <2>2. \A j \in DOMAIN names' : j > current' => (Test(j) \notin history.bad)'
        BY <1>1, <2>1 DEF Test, Suite
    <2>3. \A k \in DOMAIN Suites, t \in States :
              k > at \/ (k = at /\ state' \in Between) => <<Suites[k], t>> \notin history.bad
        BY <1>2 DEF IInv, AheadOK
    <2>4. QED  BY <1>1, <2>2, <2>3 DEF AheadOK, Test, Suite
<1>12. QED  BY <1>1, <1>7, <1>8, <1>9, <1>10, <1>11, QuietKeeps DEF IInv

LEMMA FinishKeeps ==
    ASSUME FollowsProtocol, IInv, Finish
    PROVE  IInv'
<1>1. /\ state = "__finish" /\ exit = "running" /\ Ended(FailedCount)
      /\ UNCHANGED <<exit, history>>
    BY DEF Finish, In
<1>2. state \notin Between  BY <1>1 DEF Between
<1>3. /\ Len(names) \in Nat /\ current \in Nat /\ DOMAIN names = 1..Len(names)
    BY <1>2, NamesFacts
<1>4. /\ results \in Seq(BOOLEAN) /\ current = Len(results) /\ Len(results) = Len(names)
      /\ DOMAIN results = 1..Len(names)
    BY <1>1, <1>3, LenProperties DEF IInv, TypeOK
<1>5. FailedCount \in Nat  BY <1>3, <1>4, Counting
<1>6. ASSUME FailedCount = 0, NEW t \in Entries(Suite)
      PROVE  <<Suite, t>> \in history.begun \ history.bad
    <2>1. Range(names) = Entries(Suite)  BY <1>2 DEF IInv, PlaceOK, Listings
    <2>2. PICK j \in DOMAIN names : t = names[j]  BY <1>6, <2>1 DEF Range
    <2>3. j \in DOMAIN results /\ j \in 1..current  BY <1>3, <1>4
    <2>4. results[j]  BY <1>3, <1>4, <1>6, <2>3, Counting
    <2>5. QED  BY <2>2, <2>3, <2>4 DEF IInv, ResultsOK, Test
<1>7. HistoryOK'  BY <1>1 DEF IInv, HistoryOK
<1>8. state # "none"  BY <1>1
<1>9. QED  BY <1>1, <1>5, <1>6, <1>7, <1>8, EndedKeeps

LEMMA SkipKeeps ==
    ASSUME FollowsProtocol, IInv, Skip
    PROVE  IInv'
<1>1. /\ state = "none" /\ at <= Len(Suites) /\ Entries(Suite) = {} /\ at' = at + 1
      /\ exit = "running"
      /\ UNCHANGED <<state, names, results, current, context, total, exit, history>>
    BY DEF Skip, runner
<1>2. at \in Nat \ {0} /\ Len(Suites) \in Nat
    <2>1. Len(Suites) \in Nat  BY DEF FollowsProtocol
    <2>2. at \in 1..(Len(Suites) + 1)  BY DEF IInv, TypeOK
    <2>3. QED  BY <2>1, <2>2
<1>3. TypeOK'
    <2>1. at' \in 1..(Len(Suites) + 1)  BY <1>1, <1>2
    <2>2. QED  BY <1>1, <2>1 DEF IInv, TypeOK
<1>4. names = <<>> /\ results = <<>> /\ current = 0  BY <1>1 DEF IInv, PlaceOK, Between
<1>5. PlaceOK' /\ ContextOK' /\ ResultsOK' /\ HistoryOK' /\ ExitOK'
    BY <1>1, <1>4, Places
    DEF IInv, PlaceOK, ContextOK, ResultsOK, HistoryOK, ExitOK, Between, Tested
<1>6. AheadOK'
    <2>1. ASSUME NEW k \in DOMAIN Suites, NEW t \in States, k > at' \/ k = at'
          PROVE  <<Suites[k], t>> \notin history.bad
        <3>1. k > at  BY <1>1, <1>2, <2>1 DEF FollowsProtocol
        <3>2. QED  BY <3>1 DEF IInv, AheadOK
    <2>2. DOMAIN names' = {}  BY <1>1, <1>4
    <2>3. QED  BY <1>1, <2>1, <2>2 DEF AheadOK
<1>7. PastOK'
    <2>1. Entries(Suite) = {}  BY <1>1
    <2>2. ASSUME NEW k \in DOMAIN Suites, k < at'
          PROVE  k < at \/ Suites[k] = Suite
        BY <1>1, <1>2, <2>2 DEF FollowsProtocol, Suite
    <2>3. QED  BY <1>1, <2>1, <2>2 DEF IInv, PastOK
<1>8. QED  BY <1>3, <1>5, <1>6, <1>7 DEF IInv

LEMMA LoadFailsKeeps ==
    ASSUME IInv, LoadFails
    PROVE  IInv'
<1>1. /\ exit' = "load error"
      /\ UNCHANGED <<at, state, names, results, current, context, total, history>>
    BY DEF LoadFails, runner
<1>2. TypeOK'  BY <1>1 DEF IInv, TypeOK
<1>3. HistoryOK' /\ PlaceOK' /\ ContextOK' /\ ResultsOK' /\ AheadOK' /\ PastOK' /\ ExitOK'
    BY <1>1 DEF IInv, HistoryOK, PlaceOK, ContextOK, ResultsOK, AheadOK, PastOK, ExitOK,
        Test, Suite
<1>4. QED  BY <1>2, <1>3 DEF IInv

LEMMA ExitKeeps ==
    ASSUME IInv, Exit
    PROVE  IInv'
<1>1. /\ exit = "running" /\ at > Len(Suites)
      /\ exit' \in {"passed", "failed"} /\ (exit' = "passed" => total = 0)
      /\ UNCHANGED <<at, state, names, results, current, context, total, history>>
    BY DEF Exit, runner
<1>2. TypeOK'  BY <1>1 DEF IInv, TypeOK
<1>3. HistoryOK' /\ PlaceOK' /\ ContextOK' /\ ResultsOK' /\ AheadOK' /\ PastOK' /\ ExitOK'
    BY <1>1 DEF IInv, HistoryOK, PlaceOK, ContextOK, ResultsOK, AheadOK, PastOK, ExitOK,
        Test, Suite
<1>4. QED  BY <1>2, <1>3 DEF IInv

-----------------------------------------------------------------------------
(* The states that users write. *)

\* What a state reports is kept for the test in progress, and for no other.
LEMMA ReportKeeps ==
    ASSUME FollowsProtocol, IInv,
           NEW q \in States, In(q), NEW fails \in BOOLEAN, q = "setup" => ~fails,
           history'.begun = history.begun,
           history'.bad = IF fails THEN history.bad \cup {<<Suite, context.name>>} ELSE history.bad
    PROVE  /\ state = q /\ exit = "running"
           /\ state \notin Between \cup {"__finish"} /\ state \in {"setup"} \cup Tested
           /\ current \in Nat /\ Len(names) \in Nat /\ current < Len(names)
           /\ DOMAIN names = 1..Len(names)
           /\ \A k \in DOMAIN Suites : k # at =>
                  \A t : <<Suites[k], t>> \in history'.bad <=> <<Suites[k], t>> \in history.bad
           /\ \A j \in DOMAIN names : j # current + 1 =>
                  (Test(j) \in history'.bad <=> Test(j) \in history.bad)
           /\ state \in Tested =>
                  (Test(current + 1) \in history'.bad <=> Test(current + 1) \in history.bad \/ fails)
           /\ \A j \in 1..current :
                  Test(j) \in history'.begun /\ (results[j] <=> Test(j) \notin history'.bad)
<1>1. state = q /\ exit = "running"  BY DEF In
<1>2. state \notin Between \cup {"__finish"}  BY <1>1, Places DEF Between, Generated
<1>3. /\ Len(names) \in Nat /\ current \in Nat /\ DOMAIN names = 1..Len(names)
      /\ \A j \in 1..Len(names) : names[j] \in States
      /\ \A j, k \in 1..Len(names) : names[j] = names[k] => j = k
    BY <1>2, NamesFacts
<1>4. state \in {"setup"} \cup Tested /\ current < Len(names)
    BY <1>1 DEF IInv, PlaceOK, Tested
<1>5. current + 1 \in DOMAIN names  BY <1>3, <1>4
<1>6. fails => state \in Tested /\ context.name = names[current + 1]
    BY <1>1, <1>4 DEF IInv, ContextOK
<1>7. ASSUME NEW k \in DOMAIN Suites, k # at
      PROVE  \A t : <<Suites[k], t>> \in history'.bad <=> <<Suites[k], t>> \in history.bad
    <2>1. Suites[k] # Suite  BY <1>2, <1>7, SuiteFacts DEF Between
    <2>2. QED  BY <2>1
<1>8. /\ \A j \in DOMAIN names : j # current + 1 =>
             (Test(j) \in history'.bad <=> Test(j) \in history.bad)
      /\ state \in Tested =>
             (Test(current + 1) \in history'.bad <=> Test(current + 1) \in history.bad \/ fails)
    BY <1>3, <1>5, <1>6 DEF Test
<1>9. ASSUME NEW j \in 1..current
      PROVE  Test(j) \in history'.begun /\ (results[j] <=> Test(j) \notin history'.bad)
    <2>1. j \in DOMAIN names /\ j # current + 1  BY <1>3, <1>4
    <2>2. QED  BY <1>8, <2>1 DEF IInv, ResultsOK
<1>10. QED  BY <1>1, <1>2, <1>3, <1>4, <1>7, <1>8, <1>9

\* The suites of the past are others.
LEMMA ReportKeepsPast ==
    ASSUME FollowsProtocol, IInv,
           NEW q \in States, In(q), NEW fails \in BOOLEAN, q = "setup" => ~fails,
           history'.begun = history.begun, history'.cut = history.cut,
           history'.bad = IF fails THEN history.bad \cup {<<Suite, context.name>>} ELSE history.bad,
           UNCHANGED <<at, total>>
    PROVE  PastOK'
<1> SUFFICES ASSUME total = 0, NEW k \in DOMAIN Suites, k < at, Suites[k] \notin history.cut,
                    NEW t \in Entries(Suites[k])
             PROVE  <<Suites[k], t>> \in history'.begun \ history'.bad
    BY DEF PastOK
<1>1. state # "none"  BY Places DEF In
<1>2. k # at  BY <1>1, SuiteFacts DEF FollowsProtocol
<1>3. <<Suites[k], t>> \in history.begun \ history.bad  BY DEF IInv, PastOK
<1>4. QED  BY <1>2, <1>3, ReportKeeps

\* A state goes on to the next one of its test, or from setup to __begin.
LEMMA GoesOnKeeps ==
    ASSUME FollowsProtocol, IInv,
           NEW q \in States, In(q), NEW fails \in BOOLEAN, q = "setup" => ~fails,
           NEW goes \in Goes[Suite][q], goes \notin Ends,
           history'.begun = history.begun, history'.cut = history.cut, HistoryOK',
           history'.bad = IF fails THEN history.bad \cup {<<Suite, context.name>>} ELSE history.bad,
           state' = goes, context' = [context EXCEPT !.failed = @ \/ fails],
           UNCHANGED <<at, runner, total, exit>>
    PROVE  IInv'
<1>1. UNCHANGED <<at, names, results, current, total, exit>>  BY DEF runner
<1>2. /\ state = q /\ exit = "running"
      /\ state \notin Between \cup {"__finish"} /\ state \in {"setup"} \cup Tested
      /\ current \in Nat /\ Len(names) \in Nat /\ current < Len(names)
      /\ DOMAIN names = 1..Len(names)
    BY ReportKeeps
<1>3. /\ q = "setup" => state' = "__begin"
      /\ q # "setup" => state' \in Tested
    BY <1>2, SuiteFacts, Places DEF Tested, Ends, Between
<1>4. state' \in States \cup Generated /\ state' # "__finish" /\ state' \notin Between
    BY <1>3, Places DEF Tested, Generated, Between
<1>5. /\ context' \in [name : States \cup {"none"}, failed : BOOLEAN]
      /\ context'.name = context.name /\ context'.failed = (context.failed \/ fails)
    BY DEF IInv, TypeOK
<1>6. TypeOK'
    <2>1. current' <= Len(names')  BY <1>1, <1>2
    <2>2. QED  BY <1>1, <1>4, <1>5, <2>1 DEF IInv, TypeOK
<1>7. PlaceOK'
    <2>1. at \in DOMAIN Suites /\ names \in Listings(Suite)
        BY <1>2 DEF IInv, PlaceOK, Between
    <2>2. QED  BY <1>1, <1>2, <1>4, <2>1 DEF PlaceOK, Suite
<1>8. ContextOK'
    <2> SUFFICES ASSUME state' \in Tested
                 PROVE  /\ context'.name = names[current + 1]
                        /\ context'.failed <=> Test(current + 1) \in history'.bad
                        /\ Test(current + 1) \in history'.begun
        BY <1>1 DEF ContextOK, Test, Suite
    <2>1. state \in Tested  BY <1>2, <1>3, Places
    <2>2. /\ context.name = names[current + 1]
          /\ context.failed <=> Test(current + 1) \in history.bad
          /\ Test(current + 1) \in history.begun
        BY <1>2, <2>1 DEF IInv, ContextOK
    <2>3. Test(current + 1) \in history'.bad <=> Test(current + 1) \in history.bad \/ fails
        BY <2>1, ReportKeeps
    <2>4. QED  BY <1>5, <2>2, <2>3
<1>9. ResultsOK'  BY <1>1, ReportKeeps DEF ResultsOK, Test, Suite
<1>10. AheadOK'
    <2>1. ASSUME NEW k \in DOMAIN Suites, NEW t \in States, k > at
          PROVE  <<Suites[k], t>> \notin history'.bad
        <3>1. k # at  BY <1>2, <2>1, SuiteFacts DEF Between, FollowsProtocol
        <3>2. <<Suites[k], t>> \notin history.bad  BY <2>1 DEF IInv, AheadOK
        <3>3. QED  BY <3>1, <3>2, ReportKeeps
    <2>2. ASSUME NEW j \in DOMAIN names, j > current, ~(j = current + 1 /\ state' \in Tested)
          PROVE  Test(j) \notin history'.bad
        <3>1. CASE j # current + 1
            <4>1. Test(j) \notin history.bad  BY <2>2, <3>1 DEF IInv, AheadOK
            <4>2. QED  BY <3>1, <4>1, ReportKeeps
        <3>2. CASE j = current + 1
            <4>1. q = "setup" /\ state \notin Tested /\ ~fails
                BY <1>2, <1>3, <2>2, <3>2, Places
            <4>2. Test(j) \notin history.bad  BY <2>2, <4>1 DEF IInv, AheadOK
            <4>3. QED  BY <4>1, <4>2
        <3>3. QED  BY <3>1, <3>2
    <2>3. QED  BY <1>1, <1>4, <2>1, <2>2 DEF AheadOK, Test, Suite
<1>11. PastOK'  BY <1>1, ReportKeepsPast
<1>12. ExitOK'  BY <1>1, <1>2 DEF ExitOK
<1>13. QED  BY <1>6, <1>7, <1>8, <1>9, <1>10, <1>11, <1>12 DEF IInv

\* An exception ends the process, and the exit code says that it failed.
LEMMA ThrowKeeps ==
    ASSUME FollowsProtocol, IInv,
           NEW q \in States, In(q), NEW fails \in BOOLEAN, q = "setup" => ~fails,
           history'.begun = history.begun, history'.cut = history.cut, HistoryOK',
           history'.bad = IF fails THEN history.bad \cup {<<Suite, context.name>>} ELSE history.bad,
           exit' = "failed", UNCHANGED <<at, state, runner, context, total>>
    PROVE  IInv'
<1>1. UNCHANGED <<at, state, names, results, current, context, total>>  BY DEF runner
<1>2. TypeOK'  BY <1>1 DEF IInv, TypeOK
<1>3. PlaceOK'  BY <1>1 DEF IInv, PlaceOK, Suite
<1>4. ContextOK' /\ ExitOK'  BY DEF ContextOK, ExitOK
<1>5. ResultsOK'  BY <1>1, ReportKeeps DEF ResultsOK, Test, Suite
<1>6. /\ state \notin Between /\ state \in {"setup"} \cup Tested
      /\ state = q /\ current \in Nat
    BY ReportKeeps
<1>7. AheadOK'
    <2>1. ASSUME NEW k \in DOMAIN Suites, NEW t \in States, k > at
          PROVE  <<Suites[k], t>> \notin history'.bad
        <3>1. k # at  BY <1>6, <2>1, SuiteFacts DEF Between, FollowsProtocol
        <3>2. <<Suites[k], t>> \notin history.bad  BY <2>1 DEF IInv, AheadOK
        <3>3. QED  BY <3>1, <3>2, ReportKeeps
    <2>2. ASSUME NEW j \in DOMAIN names, j > current, ~(j = current + 1 /\ state \in Tested)
          PROVE  Test(j) \notin history'.bad
        <3>1. Test(j) \notin history.bad  BY <2>2 DEF IInv, AheadOK
        <3>2. CASE j # current + 1  BY <3>1, <3>2, ReportKeeps
        <3>3. CASE j = current + 1
            <4>1. ~fails  BY <1>6, <2>2, <3>3
            <4>2. QED  BY <3>1, <4>1
        <3>4. QED  BY <3>2, <3>3
    <2>3. QED  BY <1>1, <1>6, <2>1, <2>2 DEF AheadOK, Test, Suite
<1>8. PastOK'  BY <1>1, ReportKeepsPast
<1>9. QED  BY <1>2, <1>3, <1>4, <1>5, <1>7, <1>8 DEF IInv

LEMMA BodyKeeps ==
    ASSUME FollowsProtocol, IInv, NEW q \in States, Body(q)
    PROVE  IInv'
<1>1. In(q)  BY DEF Body
<1>2. PICK fails \in IF q = "setup" THEN {FALSE} ELSE BOOLEAN, goes \in Goes[Suite][q] :
        /\ history' = [history EXCEPT
               !.bad = IF fails THEN @ \cup {<<Suite, context.name>>} ELSE @,
               !.cut = IF goes = "terminal" THEN @ \cup {Suite} ELSE @]
        /\ \/ /\ goes \in States \cup Generated
              /\ state' = goes
              /\ context' = [context EXCEPT !.failed = @ \/ fails]
              /\ UNCHANGED <<at, runner, total, exit>>
           \/ /\ goes = "terminal"
              /\ Ended(0)
              /\ UNCHANGED exit
           \/ /\ goes = "throw"
              /\ exit' = "failed"
              /\ UNCHANGED <<at, state, runner, context, total>>
    BY DEF Body
<1>3. fails \in BOOLEAN /\ (q = "setup" => ~fails)  BY <1>2
<1>4. /\ history'.begun = history.begun /\ HistoryOK'
      /\ history'.bad = IF fails THEN history.bad \cup {<<Suite, context.name>>} ELSE history.bad
      /\ history'.cut = IF goes = "terminal" THEN history.cut \cup {Suite} ELSE history.cut
    BY <1>2 DEF IInv, HistoryOK
<1>5. CASE goes \in States \cup Generated
    <2>1. goes \notin Ends  BY <1>5, Places DEF Ends, Generated
    <2>2. history'.cut = history.cut  BY <1>4, <2>1 DEF Ends
    <2>3. /\ state' = goes /\ context' = [context EXCEPT !.failed = @ \/ fails]
          /\ UNCHANGED <<at, runner, total, exit>>
        BY <1>2, <2>1 DEF Ends
    <2>4. QED  BY <1>1, <1>3, <1>4, <2>1, <2>2, <2>3, GoesOnKeeps
<1>6. CASE goes = "terminal"
    <2>1. Ended(0) /\ UNCHANGED exit  BY <1>2, <1>6, Places DEF Ends, Generated
    <2>2. Suite \in history'.cut /\ history.cut \subseteq history'.cut  BY <1>4, <1>6
    <2>3. /\ state # "none" /\ exit = "running"
          /\ \A k \in DOMAIN Suites : k # at =>
                 \A t : <<Suites[k], t>> \in history'.bad <=> <<Suites[k], t>> \in history.bad
        BY <1>1, <1>3, <1>4, ReportKeeps DEF Between
    <2>4. QED  BY <1>4, <2>1, <2>2, <2>3, EndedKeeps
<1>7. CASE goes = "throw"
    <2>1. exit' = "failed" /\ UNCHANGED <<at, state, runner, context, total>>
        BY <1>2, <1>7, Places DEF Ends, Generated
    <2>2. history'.cut = history.cut  BY <1>4, <1>7
    <2>3. QED  BY <1>1, <1>3, <1>4, <2>1, <2>2, ThrowKeeps
<1>8. QED  BY <1>2, <1>5, <1>6, <1>7

-----------------------------------------------------------------------------
(* The invariant, and the theorems. *)

LEMMA StepKeeps ==
    ASSUME FollowsProtocol, IInv, [Next]_vars
    PROVE  IInv'
<1>1. CASE UNCHANGED vars
    <2>1. UNCHANGED <<at, state, names, results, current, context, total, exit, history>>
        BY <1>1 DEF vars, runner
    <2>2. TypeOK'  BY <2>1 DEF IInv, TypeOK
    <2>3. HistoryOK' /\ PlaceOK' /\ ContextOK' /\ ResultsOK' /\ AheadOK' /\ PastOK' /\ ExitOK'
        BY <2>1 DEF IInv, HistoryOK, PlaceOK, ContextOK, ResultsOK, AheadOK, PastOK, ExitOK,
            Test, Suite
    <2>4. QED  BY <2>2, <2>3 DEF IInv
<1>2. CASE Harness
    <2>1. CASE Skip  BY <2>1, SkipKeeps
    <2>2. CASE Start  BY <2>2, StartKeeps
    <2>3. CASE InitState  BY <2>3, InitStateKeeps
    <2>4. CASE Loop  BY <2>4, LoopKeeps
    <2>5. CASE Begin  BY <2>5, BeginKeeps
    <2>6. CASE Dispatch  BY <2>6, DispatchKeeps
    <2>7. CASE End  BY <2>7, EndKeeps
    <2>8. CASE Finish  BY <2>8, FinishKeeps
    <2>9. CASE Exit  BY <2>9, ExitKeeps
    <2>10. CASE \E q \in States : Body(q)  BY <2>10, BodyKeeps
    <2>11. QED
        BY <1>2, <2>1, <2>2, <2>3, <2>4, <2>5, <2>6, <2>7, <2>8, <2>9, <2>10 DEF Harness
<1>3. CASE LoadFails  BY <1>3, LoadFailsKeeps
<1>4. QED  BY <1>1, <1>2, <1>3 DEF Next

LEMMA Invariance ==
    ASSUME FollowsProtocol
    PROVE  Spec => []IInv
<1>1. Init => IInv  BY InitInvariant
<1>2. IInv /\ [Next]_vars => IInv'  BY StepKeeps
<1>3. QED  BY <1>1, <1>2, PTL DEF Spec

\* The runner's index, names, results and context stay in step in every suite
\* that follows the protocol, whatever its tests do.
THEOREM TypeCorrect ==
    ASSUME FollowsProtocol
    PROVE  Spec => []TypeOK
<1>1. IInv => TypeOK  BY DEF IInv
<1>2. QED  BY <1>1, Invariance, PTL

\* Each test has its own TestContext: a failed expectation counts for the test
\* it is made in, and for no other one.
THEOREM FailuresStay ==
    ASSUME FollowsProtocol
    PROVE  Spec => []FailuresStayWithTests
<1>1. IInv => FailuresStayWithTests
    <2> SUFFICES ASSUME IInv, NEW i \in DOMAIN results
                 PROVE  results[i] <=> <<Suite, names[i]>> \notin history.bad
        BY DEF FailuresStayWithTests
    <2>1. i \in 1..current  BY LenProperties DEF IInv, TypeOK
    <2>2. QED  BY <2>1 DEF IInv, ResultsOK, Test
<1>2. QED  BY <1>1, Invariance, PTL

\* An exit code of 0 means that, of every suite that no terminal cut short, each
\* test state has been run as a test and has passed, but those that some state
\* goes to, which analyse_suite_body takes for continuations.
THEOREM ZeroIsPassed ==
    ASSUME FollowsProtocol
    PROVE  Spec => []ZeroMeansAllPassed
<1>1. IInv => ZeroMeansAllPassed
    <2> SUFFICES ASSUME IInv, exit = "passed",
                        NEW k \in DOMAIN Suites, Suites[k] \notin history.cut,
                        NEW t \in Range(Tests[Suites[k]]),
                        ~\E q \in States : t \in Goes[Suites[k]][q]
                 PROVE  <<Suites[k], t>> \in history.begun \ history.bad
        BY DEF ZeroMeansAllPassed
    <2>1. total = 0 /\ at > Len(Suites)  BY DEF IInv, ExitOK
    <2>2. k < at  BY <2>1 DEF FollowsProtocol, IInv, TypeOK
    <2>3. t \in Entries(Suites[k])  BY DEF Entries, Targets
    <2>4. QED  BY <2>1, <2>2, <2>3 DEF IInv, PastOK
<1>2. QED  BY <1>1, Invariance, PTL
=============================================================================
