# A formal model of falcon-lib

falcon-lib runs *autotuners*: state machines written in a small language (`.fal`
files) that measure and tune a quantum device. A program is loaded with its
imports, interpreted, calls routines written in C++, keeps its results in a
PostgreSQL database and talks to an instrument hub over NATS. This directory
holds TLA+ models of the parts of the library in which order, concurrency,
failure, re-entrance and agreement between two sides of an interface matter, the
TLC configurations that check them, and the proofs TLAPS checks. `PROJECT.json`
maps every definition to the lines it models and lists the hazards of the code
with the properties that cover them.

Paths below are relative to the repository's sources; `X:n` is line n of file X.

## How to run

    tlc -workers 2 -config MCRequestReplySequential.cfg MCRequestReply.tla
    tlapm NatsManagerProofs.tla

Each `MC<Module><Case>.cfg` belongs to `MC<Module>.tla`, which EXTENDS the
component's module and only supplies values of constants. Theorems are in
`<Module>Proofs.tla`. Each component's module also holds, next to an action, the
variants of it marked *Fault*: what the action would be with a plausible bug.
They are not part of the specification; each of them breaks the property that
`PROJECT.json` pairs it with, which shows that the property depends on the code.

## The system

### Parts, state, operations

| part | state it keeps | operations | what makes it correct | module |
|---|---|---|---|---|
| comms: request/response calls (`comms/src/*_comms.cpp`) | per call, in its stack frame: `prom`, `done`; the entries of `subscriptions_` | `subscribe_config_response`, `_port_payload`, `_measure_response`, `_state_response` | a call ends; it returns a well-formed response, to its own request; callbacks touch only live frames; no entry of the table is lost or left | RequestReply, RequestContract |
| comms: NatsManager | `conn_`, `js_`, `subscriptions_` with heap callbacks, `mutex_` | connect, disconnect, publish, request, subscribe, unsubscribe, jetstream_pull; handlers on delivery threads | nothing destroyed is used or destroyed again | NatsManager |
| comms: message definitions | none | to and from JSON | round trip | - |
| dsl: program loading (`dsl/src/AutotunerEngine.cpp`) | `loaded_paths_`, `loaded_programs_`, `import_struct_hints_`, registries | load_fal_file, process_ff_import, load_routine_library, run_autotuner | imports before importers, once, without loops; a name reaches what it names | ProgramLoader |
| dsl: registries | `functions_`, `signatures_`, `struct_registry_`, `ffi_methods_` | register, lookup | see loading | ProgramLoader |
| dsl: interpreter (`dsl/src/Interpreter.cpp`, `StmtExecutor.cpp`) | `variables_`, one for all nested runs | run, re-entered from expressions | a run gives the caller its variables back; the scope of an autotuner is fixed | Interpreter, CallStack |
| dsl: expressions (`ExprEvaluator.cpp`) | fields of objects, copies of them in calls | evaluates, resolves calls, runs struct routines | no copy overwrites a newer value | StructRoutines; calls in Interpreter, ProgramLoader, ForeignCalls |
| dsl: package cache | `index_`, `index.json`, `<sha>.fal` copies | lookup, store, invalidate, clear, load and save of the index | the index names copies that exist and are intact | PackageCache |
| dsl: package manager | manifest, `falcon.yml` | init, install, remove, list, resolve_imports | recorded means cached; names unique | PackageManager |
| package manager and falcon-run command lines | none | one operation per process | - | - |
| falcon-test, testing library (`dsl/src/cli/test_main.cpp`, `libs/testing`) | TestRunner, TestContext, counters | discovers and runs entry tests | each test once, each failure counted for its own test, the exit code tells | TestHarness |
| dsl: parser | scope sets, hints, all global | parse, parse_file | nothing of one parse reaches the next | - |
| dsl: language server | documents, resolved imports | open, change, resolve | - | - |
| database | `conn_`, the table of characteristics, snapshot files | insert, get, delete, clear, initialize, snapshot import and export | a call takes effect once and altogether; a restore is complete, or stops in order | Database, Characteristics, CharacteristicTable |
| typing, C ABI of foreign functions; wrappers of libs | opaque values with a label | pack, unpack, cast | a wrapper casts an object to the type it has; every call of declared types is answered | WrapperTable, ForeignCalls, one table per group of libraries |
| routine (hub, log) | logger, once | request_port_payload, measurement calls | - | - |
| libs: collections | arrays, `Map` as two parallel arrays | get, set, remove | an element comes back under its type | ArrayWrappers, ForeignCalls |
| libs: io, log, strings, database, demos | StdoutCapture's pipe | wrappers | as above | LibraryWrappers |
| libs: falconCore | none of its own | most of the 895 wrapped routines | as above | Name-, Context-, Unit-, Domain-, Array-, LabelledArray-, MessageWrappers |
| qarrayDevice, tree-sitter grammar | device of an external simulator; none | - | - | - |

### How the parts interact

- An autotuner's `ffimport`ed routine calls the *routine* functions, which call
  the request/response functions; these use the process-wide `NatsManager`. A
  response arrives on a thread of the NATS library, which runs the callback
  registered with `subscribe` **outside** `mutex_`.
- `AutotunerEngine` resolves imports through `PackageManager`, whose resolver
  stores each imported file in `PackageCache`, parses it with the compiler's
  global parser and fills the registries. Functions it registers hold a
  reference to the engine and look programs up again when they are called.
- `Interpreter` evaluates an expression, the expression calls an autotuner, and
  its registered function calls `Interpreter::run` on the **same** object.
- A struct routine with a body is run by the evaluator in an environment of its
  own; one without a body is a symbol of a shared library, found by the
  *label* of the receiver and given its parameters under labels. The wrapper
  trusts the labels and casts. The database and the testing library are reached
  from programs in this way.
- falcon-test writes an autotuner around the states of a suite and runs it with
  an engine of its own; the states share two objects of the testing library.

### What is hard

Concurrency: the calling threads, the delivery threads and teardown of the
connection; processes that share a table. Ordering: responses carry no
correlation and unsubscribing is by subject. Crashes: the cache, its index, the
manifest and exported snapshots are rewritten in place by short-lived processes.
Partial failure: an import fails deep in a chain of loads, or between two
transactions; a statement throws several runs deep; a connection is lost around a
commit. Re-entrance: `variables_`, and the copies of fields. Agreement: hundreds
of `.fal` declarations and C++ casts that no compiler compares. `PROJECT.json`
lists these as hazards, each at its line.

## Modules

### RequestReply, RequestContract

All four functions have one shape: subscribe, publish, `wait_for`, and on each
way out `unsubscribe(subject)`. Each constant `Calls` is one call, made by
`ThreadOf[c]` on `SubjectOf[c]`. `phase[c]` is the place in the function:
`subscribed` before publish, `waiting` in `wait_for`, `ready` with a value,
`expired`/`givenup` around `done.store(true)` of the timeout path, `catching` in
the catch-all, which the timeout path reaches by its own throw. A delivery
thread takes a message (`Dispatch`), does `done.exchange(true)` (`Exchange`) and
fulfils the promise (`SetPromise`); these are separate steps, so a deadline can
pass between any two of them. A callback whose frame is gone acts on whatever is
at that stack address: nothing the model tracks (`Stray...`) or the frame of a
later call of the same thread on the same subject (`FramesAt`). The hub and the
broker are external: a request may be answered, well or badly, later, or never.
`publish` lies outside the `try` block, so its failure leaves the registration.

`RequestContract` is what a caller gets: a call ends at most once, and what it
returns is a well-formed response published on its subject. It does not say
*whose* response, since the messages cannot. `Contract` in RequestReply is the
refinement mapping.

### NatsManager

Connections are numbered as they are opened. Operations that hold `mutex_`
throughout are one step, except a teardown, cut in two because `conn_` and `js_`
are read by others without the lock in the middle of it. publish, request and
jetstream_pull are `EnsureConnected` (lock), then `Load...` (no lock), then
`LibraryReturns`. `callback[r]` and `running` tell whether the heap closure of a
subscription is there while `message_handler` runs.

### PackageCache, PackageManager

`task[p]` is the cache operation a process is inside. Every operation is cut at
each write: `store` = hash, copy (begin, end), save the index (truncate, write);
`invalidate` = erase, save, unlink; `clear` = unlink the copies one after the
other (`ClearCopy`), then drop and save the index (`ClearEnd`). `UseCache` is a
process that calls the cache by itself. `Crash` may happen between any two, and
`Edit` changes a source at any time. A hash is modelled by its content; `Torn` is
a file truncated and not completed. `SaveUnnoticed` is the unchecked stream write.
PackageManager EXTENDS PackageCache and drives it: `job[p]` is where install or
remove is, `yml` is falcon.yml, `deps[p]` the manifest in memory. Each of its
actions does a cache step, a manifest step, or both.

### Interpreter, CallStack

`frames` is the C++ stack of `run()` calls, `saved` their `saved_variables`,
`variables` the one member. A run binds the statements before `start`, inputs
and outputs, then executes states. Statements are any sequence of assignments;
every evaluation may re-enter (`Run`) or throw. The set of names at entry of a
state (`globals`) decides what is forgotten when it ends. `CallStack` is the
abstract stack: one environment per run, of which only the top one changes.

### StructRoutines

A call of a routine with a body copies the fields of its object into an
environment under their bare names, binds arguments and outputs over them, and on
return writes fields to the copies and the copies back (`exec_struct_routine`,
`dsl/src/ExprEvaluator.cpp:306`). `fields[o]` is the object, which everything that
holds it shares; `frames` the calls in progress. A field assignment writes the
object and the variable of that name in the innermost call, whatever the object
(`StmtExecutor.cpp:285`). Nothing checks that a member is one the struct declares,
neither where it is assigned nor where it is read, so `Names` are any names and
`Fields` those that are declared; and reading a member that the object has not got
inserts it, as the `int64` 0 of a default `RuntimeValue` (`eval_member`,
`ExprEvaluator.cpp:296`, and `get_field`, `PrimitiveTypes.hpp:141`): `MemberRead`,
whose value is the constant `Zero`. An object that was declared without a value has
no fields at first (`Create`). The initializer of a field is a constant of the
model, `Defaults[f]`. Two histories are not in the code: `assigned`, what a
statement assigned to a member last, and `disturbed`, the fields whose copy
something other than an assignment of the call itself may have made differ. The
program is any sequence of statements.

### ProgramLoader

`stack` is the recursion of `load_fal_file`. A frame resolves its path, takes its
imports one by one (`Import` recurses, `Imported` contributes struct names for
the parser), parses and registers structs, compiles each wrapper, and registers
autotuners and routines. `Fail` unwinds the whole chain and leaves what it had
registered. A program is a file and a serial number, so that an old and a new
load of one file differ. `Executes` and `Resolved` say which code a call runs.

### ForeignCalls and the tables

895 routines of the bundled libraries are declared in `.fal` files and
implemented in C++ wrappers. `WrapperTable` holds the words in which the eight
table modules are written: a row names a routine's type, its name, its result
(declared type, label, native type), and for each parameter

- `declared`: the types the `.fal` file accepts;
- `told`: the labels the wrapper tells apart, with the cast it makes for each;
- `otherwise`: its cast for any other object, or `Refused` when it throws.

`ForeignCalls` is a program that follows one value: it makes it, passes it to
routines, calls routines on it, puts it into an array and takes it out again. The
interpreter finds the routine by the label of the value, not by its declared
type, and the wrapper casts by what the row says. Where a wrapper disagrees with
its declaration, the routine is in `MCAvoided`: the ASSUME `AvoidedAssumption`
states that these 68 are **exactly** the routines that do not agree, so a
divergence that is corrected, or added, shows. What is checked of the calls is
therefore checked of the 827 rows that agree, and of how they combine.

### Database, Characteristics, CharacteristicTable

`AdminDatabaseConnection` and `SnapshotManager`: processes, each with one
connection that one thread uses, on one table. A call is `Call`, the opening of
the connection, a statement (`SendInsert`, `SendDelete` then `Delete`, ...) and
`Commit`; transactions are READ COMMITTED, so a deletion works on the rows that
were committed when it started, waits for the locks of others and skips what is
gone by then. A connection can be lost at any moment (`Lose`, noticed at the next
use), also between a commit and its answer (`CommitUnanswered`); a process can be
killed and started again (`Crash`). An import is an optional clear and one
transaction per item; an item of the wrong type throws half-way (`Mistyped`).
Whatever ends a job sets `job[p]` back to `NoJob`; `job[p].alone` is a history: no
other process has committed since the import began. An
export reads, truncates and writes a file. PostgreSQL and libpqxx are external.

`CharacteristicTable` is what a caller gets: a call takes effect at once and
altogether or not at all; one that returned has; one that threw may have. A
deletion removes at least the matching rows that were there when it was called
and nobody else removed. `Contract` in Database is the refinement mapping.

### TestHarness

falcon-test picks, in each suite, the `test_` states that no state goes to, itself
included (`Entries`; `Listings` are the orders they may come in), generates `__init`, `__loop`, `__begin`, `__dispatch`, `__end` and
`__finish` around them, and runs the suite. `state` is the state being run;
`names`, `results`, `current` are the TestRunner, `context` the TestContext. The
states of users (`Body`) fail expectations, go on, throw or end by `terminal`, as
`Goes` allows. `history` is not in the code: the tests begun, those in which an
expectation failed, and the suites that `terminal` cut short.

## Runs

State counts are of distinct states; TLC explores each run completely. Where the
cfg declares symmetry, they are of states up to symmetry.

| run | instance | shows | states |
|---|---|---|---|
| rr_sequential | two consecutive calls of one thread on MEASURE, one of another thread on PORT | `WaitingIsRegistered`, `RegistrationsBounded`; and while no call on the subject was abandoned, `AnswersOwnRequest`, `NoStrayCallback` | 206,730 |
| rr_shared_subject | two threads on one subject, with fairness | `ImplementsContract`, `EveryCallEnds` hold although the subject is shared | 41,616 |
| nats_reconnect | 2 threads, 2 subscriptions, 3 connections, 2 teardowns | `JetstreamOnConnection`, `TrackedAreUsable`; before the first teardown `SteadyIsSafe` | 16,456 |
| cache_intact | 1 process, 2 sources, 2 contents, crashes, edits | *violated*: `HitIsIntact` | - |
| manager_ops | a file, a directory holding it and another, a package of the directory's name, on the whole cache | `NamesAreUnique`, `EntriesHaveCopies`, `RecordedIsCached`; of packages that are files `RemovedIsUncached` | 5,460,000 |
| interpreter_calls | two autotuners, three names in different roles, runs three deep | `ScopeIsFixed`, `ImplementsCallStack` | 2,678,029 |
| struct_routines | two objects, three routines that shadow the field in different ways, a name the struct has not got, calls three deep | `UpdatesAreKept`; but for the fields in `disturbed` `OwnWritesAreSeen` | 2,263,803 |
| loader_diamond | a diamond of four files that share names, at most 8 programs | `ImportsComeFirst`, `ParsedWithHints`, `QualifiedReachesNewest`, `ImportsAreLoadedOnce`; of extern names that are not shared `ExternCallsReachModule` | 105,331 |
| loader_loop | two files that import each other | *violated*: `NoImportLoop` | - |
| foreign_calls | every wrapped routine but the 68 that disagree with their declaration | `NothingMiscast`, `EveryCallAnswered`, `HeldAsDeclared` | 862 |
| database | a process that initializes, imports and exports, another that inserts, deletes and reads | `ImplementsTable`, `RestoreIsComplete`, `StoppedRestoreIsPrefix`, `EveryCallReturns` | 139,425 |
| test_harness | five suites: fixtures, a `terminal`, no tests, helpers, a test that repeats itself | `FailuresStayWithTests`, `HarnessEnds`; of tests that no state goes to, in suites not cut short, `ZeroMeansAllPassed` | 2,632 |

Every passing run but rr_shared_subject, whose module is that of rr_sequential,
and foreign_calls, whose `HeldAsDeclared` says it, also checks its module's type
invariant.

### Why the bounds are enough

- **RequestReply**: a wrong delivery takes two calls on one subject (the first's
  late response, the second's wait); the third call, on another subject, makes
  "the first entry *with that subject*" matter. With one call per thread and
  subject, no entry could be confused with another.
- **NatsManager**: two teardowns and three connections let a handle outlive its
  connection, be replaced, and the replacement be torn down too; two
  subscriptions let one survive the other's `unsubscribe`. `MaxConnections` and
  `MaxTeardowns` only bound counters. Threads are interchangeable, as are
  registrations: both are symmetric.
- **PackageCache, PackageManager**: sharing a copy takes two sources with one
  content, staleness two contents. Three packages give all relations between two
  of them: same file in both, same name with different files, file and
  directory. One process at a time, since the command line runs one operation per
  process; see the observations about two. Contents are symmetric.
- **Interpreter**: depth 3 has a run with a caller and a callee. Values do not
  matter to which names exist, so one is enough.
- **StructRoutines**: an old copy is written back by a call within a call on the
  same object, so `MaxDepth = 3`, the state that makes them included. Two objects
  tell a field of the own object from one of another; two values tell old from
  new, and the initializer from the 0 that a read inserts. One field is enough,
  since fields are copied each by itself; one name that is not a field stands for
  any other. Objects are symmetric.
- **ProgramLoader**: a diamond is the smallest graph in which a loaded file is
  imported again. `MaxPrograms = 8` allows the whole diamond to be loaded and
  then every file again; `MaxDepth = 4` exceeds the longest chain, so the bound
  never cuts a load of the diamond short.
- **ForeignCalls** has no bound: the tables are complete, and one value is
  followed through any number of calls.
- **Database**: one process that imports and one that does as it likes give
  every pair of transactions that can wait for each other, one of which is part
  of an import. Two rows (`MaxRows`, of the SERIAL column) hold a whole snapshot,
  or one of its rows and one of the other process; ids are never reused, so the
  bound counts insertions. One loss (`MaxLosses`) falls on any step of any call;
  processes are killed without a bound.
- **TestHarness**: suites affect each other through `total_failed` only, so each
  of the five stands for one way of ending, at two or three tests.

Deadlock is checked in every run but test_harness, whose program ends by
exiting. Elsewhere, where a program may rightly stop, the specification says so
with an action (`AllEnded`, `HostIsDone`).

### Fairness

Three modules assume some:

- `RequestReply!FairSpec`: weak fairness of `CallProceeds(c)` for each call, that
  is, a calling thread that can go on is eventually scheduled, and `wait_for`
  returns by its deadline. Nothing about the hub, the broker or the delivery
  threads.
- `Database!FairSpec`: weak fairness of a process's steps between calls, and
  strong fairness of the steps of its calls: a statement that waits for a lock
  is enabled again and again as others take and release it, and PostgreSQL grants
  locks in the order they were asked for. Nothing about losses and crashes.
- `TestHarness!Spec`: weak fairness of the harness, a single thread that nothing
  blocks. That the states of users end is assumed where they are one step.

The other modules state safety only: their operations end when the library, the
disk or the interpreted program lets them, which the code does not control.

## Proofs

Proved for every value of the constants that satisfies the named assumptions of
each module. Five theorem groups say in an `ASSUME ... PROVE` what else they need,
either what the code relies on without checking it or what holds of the checked
instance:
`OneThreadPerSubject` (a program makes the calls on one subject from one thread),
`OneProcess` (one package manager at a time on a project), `ModulesDiffer` (no two
files have the same stem), `TablesAgree` with `NamesApart` (of the routines that are
called; for the library that is all but the 68 of `MCAvoided`), and
`FollowsProtocol`: how the states of a suite must use the testing library.

| module | theorem | argument |
|---|---|---|
| RequestReplyProofs | `TypeCorrect` | `TypeOK` is inductive |
| | `WaitingRegistered` | assumes `OneThreadPerSubject`. `RegInv` = `TypeOK`, the property, and `OneLivePerThread`: a thread makes one call at a time. A call that unsubscribes is in progress, so any other call in progress is another thread's and on another subject, and `unsubscribe` spares the entries of other subjects (`UnsubscribeSpares`) |
| | `ServesContract` | assumes nothing of the threads. `ExchangeInv` = `TypeOK`, `RequestsOK` (a call has a request once it has published) and `MessagesOK` (what is queued, handled or promised was published, on the subject it is found on). So when a call wakes up with a good response, that response has been offered, as the contract's `Return` asks; every other step is one of the contract's or a stutter |
| | `RegistrationsStayBounded` | assumes nothing of the threads. `BoundInv`: on each subject the entries are no more than the calls entitled to one, and the started calls are finitely many. The end of a call takes its entitlement away, so the proof is that the end has then erased an entry, or that there was none: `unsubscribe` erases by subject, whosever the entry is. Cardinalities by the library's theorems |
| | `AnswersAreOwn`, `CallbacksFindTheirFrame` | assume `OneThreadPerSubject`. `OwnInv` = `RegInv`, `RequestsOK`, `MessagesOK`, `TableOK` (each entry is of another call that has begun) and `StepInv`: while no call on a subject was abandoned, only a call in progress is registered there, and the queue, the delivery thread and the promise of a call have seen the answer to that call only, one of them at a time |
| NatsManagerProofs | `TypeCorrect`, `JetstreamIsCurrent`, `TrackedUsable` | `IInv` = `TypeOK`, the two properties, and `LockInv`: in the middle of a teardown its thread owns the mutex, nothing is tracked and there is no JetStream context; connections are numbered upwards, so a new one is not a destroyed one. Without `LockInv` a step of another thread could not be ruled out between the halves of a teardown. `callback` never becomes "deleted twice" only because what is tracked is allocated, so even `TypeOK` needs the rest |
| | `SafeWhileSteady` | `SteadyInv`: before the first teardown no connection is destroyed, no callback deleted, and whatever handle a thread holds is `conn`. `unsubscribe` keeps it because it leaves the callback on the heap |
| InterpreterProofs | `TypeCorrect`, `ScopeFixed` | `FramesInv` says of each run which names its environment has, by phase; of a run with a callee the environment is the one the callee saved. Steps fall into three kinds, proved once each: local ones change the top frame only, a begin pushes, an end pops |
| | `Refinement` | under `Append(saved, variables)`, the three kinds are the three actions of `CallStack` |
| RoutineProofs | `TypeCorrect`, `UpdatesKept`, `OwnWritesSeen` | `ObjectsOK`: a member holds what was assigned to it. `FramesOK`: each frame is *sound*, its undisturbed copies are what the object holds, or the initializer of a field it has not got. That every call finds the fields of its struct under their bare names is part of `TypeOK`, and holds whatever other members its object has. A read that inserts a member marks it where the initializer is not 0 (`MemberReadKeeps`). A return keeps both because it synchronizes the copies with the object before it writes them, and marks the fields an object gains in every other frame on it |
| | `NeverMiscast`, `CallsAnswered`, `HandlesKeepType` | assume `TablesAgree` and `NamesApart`, which TLC evaluates for the tables without `MCAvoided`. `Safe` = the last call was answered, and the value held is `Proper`. If every row agrees by itself, no chain of calls and arrays makes one disagree: what holds of the routines one by one holds of all their compositions |
| ProgramLoaderProofs | `TypeCorrect`, `ImportsLoaded` | `FramesInOrder`: a load past its imports has them all in `loaded`, one among them has the others. `ImportsComeFirst` needs it at `Register`, and it survives nested loads because `loaded` only grows |
| | `ParsedOnceForImports`, `HintsReachParser` | `LoadInv`: what a load has gone past is in the hints (`Sound`), a loaded file is `Complete`, and every load but the outermost is of an import that is not loaded. When a load registers its file, no load further out but the outermost can be of the same file: that one waits for an import that is not loaded, while this one has them all. Reachability needs no induction: what a file imports, directly or not, is in every set closed under imports, and the loaded files whose hints are known are one |
| | `QualifiedAreNewest`, `ExternCallsAreOwn` | assume `ModulesDiffer`: no two files have the same stem (two that do overwrite each other's qualified names, in the code as in the model). `TablesInv`: every function is `Placed` under a name of its file, and the rows of a loaded file are those of its newest program; a library puts that program in the place of a function, never an older one |
| PackageManagerProofs | `ManagerKeepsToCache` | a step of the manager is a step of the cache or leaves it alone, so what is proved of `PackageCache` holds under the manager. That `InstallFile` stores a source file takes `ManagerTypeOK` |
| | `ManagedIndexNamesCopies` | assumes `OneProcess`; follows from `IndexNamesCopies`, the same about the cache. `CopiesInv` = types, `TasksOK`, the property and `SavedFirst`: when a copy is about to be removed, the index on disk is already the map without its entry, or cut short. With a second process the property is false (see the hazards) |
| | `ManagerTypesKept`, `InstallCachesFirst`, `RemoveUncachesFirst` | any number of processes. `JobsOK`: an installation has no `clear()` between its steps, and each file it has passed is in the index or being copied; a removal that was begun has no entry left, and stores nothing before the record goes. The action properties are read off this invariant |
| | `NamesStayUnique` | any number of processes: only `Record` adds a name, and only where there is none; the rest copies lists or shortens them |
| DatabaseProofs | `TypeCorrect`, `ServesContract` | `IInv` = `TypeOK`, `SharedOK`, `ImportsOK`. `SharedOK` relates a process to the table: a deletion in progress has seen, or owes, only rows that were committed (`OwedOK`); a row that is being inserted has an id nobody has seen (`FreshOK`), is owed by no deletion and inserted by no one else (`Apart`). Every step changes one process; all but the commits leave the abstract table alone, and a commit is the abstract effect (`CommitHasEffect`) |
| | `RestoresComplete`, `StopsAtPrefix` | `RestoresOK`, on top of `IInv`: while nobody else commits, the table is as the import found it until the clearing is done, and then holds as many rows of each characteristic as there are among the items before `next`, less the one whose insertion is in progress. Of all steps that end an import only an unanswered commit changes the table, and `CommitLeaves` says to what. Cardinalities come from the library's theorems on finite sets |
| TestHarnessProofs | `TypeCorrect`, `FailuresStay`, `ZeroIsPassed` | assume `FollowsProtocol`, which the five suites keep (an `ASSUME` of the MC module), and nothing about which tests the tool finds. `IInv` says what each state may have done: `PlaceOK` and `ContextOK` that the context is that of the test in progress, `ResultsOK` that results are right so far, `AheadOK` that later tests were not begun, `PastOK` and `ExitOK` what earlier suites contributed. `ReportKeeps`: a failure that a state reports counts for the test in progress and no other |

Checked by TLC only: `EveryCallEnds`, `EveryCallReturns` and `HarnessEnds`, since
liveness under fairness is outside the prover's reach, and the two properties
that are violated. Every invariant, action property and refinement that a
passing run checks is also a theorem, the type invariants included.
## What the code does otherwise than it says

Two runs end in a violation; TLC's trace is the scenario.

1. **cache_intact** - `lookup` hashes the source, never the copy
   (`PackageCache.cpp:116`), and `store` copies in place after hashing. A copy cut
   short by a crash, or made after an edit, is returned as valid.
2. **loader_loop** - a path counts as loaded after its imports are
   (`AutotunerEngine.cpp:169`), so import loops recurse without end, where
   `dsl/docs/PACKAGE_MANAGER.md:69` promises they are refused.

Observations made while reading. The models do as the code does; no run states
the contrary as a property.

Messages:

- `unsubscribe(subject)` erases the first registration with the subject
  (`comms/src/natsManager.cpp:175`), whichever call made it: of two threads that
  wait on one response subject, the first to end takes the other's registration
  away, and the other times out. The header says "Thread-safe"
  (`natsManager.hpp:16`). `WaitingIsRegistered` is therefore stated for threads
  with subjects of their own (`OneThreadPerSubject`).
- The late answer of a call that timed out is taken by the next call on the
  subject, and a callback that was running when the deadline passed writes to the
  frame of a call that has returned (`routine_comms.cpp:27`). `AnswersOwnRequest`
  and `NoStrayCallback` are therefore stated until a call on the subject is
  abandoned; what the calls keep after that is `RequestContract`.
- `publish` reads `conn_` after `ensure_connected` has released the mutex
  (`natsManager.cpp:81`); a connect or disconnect of another thread destroys it
  before the library uses it. `SteadyIsSafe` ends with the first teardown.
- `unsubscribe` leaves the heap callback of `subscribe` behind
  (`natsManager.cpp:181`): each request/response call leaks one. It is also what
  keeps `SteadyIsSafe` true.
- `jetstream_pull` acknowledges each message before the batch is complete
  (`natsManager.cpp:212`); `outs[0]` is read although a pull that failed or timed
  out gives an empty vector (`routine/src/hub.cpp:29`).

Packages and loading:

- `resolve_local` stores every import anew (`PackageResolver.cpp:56`), so a fresh
  copy is rewritten each time, and exposed to a crash each time. `falcon.yml` is
  rewritten in place (`PackageManifest.cpp:61`).
- `remove` of a directory invalidates the directory's path, which is never in
  the index: its files stay cached (`PackageManager.cpp:131`). `RemovedIsUncached`
  is therefore stated of packages that are files.
- Two processes of one project each write the whole index from their own memory;
  with two, `EntriesHaveCopies` fails at once. No document promises otherwise.
- `clear` unlinks the copies and then the index, so a crash in between leaves
  entries without copies; `EntriesHaveCopies` excepts a clear that is running or
  was cut short.
- Qualified names are made of the stem of the path (`AutotunerEngine.cpp:147`),
  so two files of one stem in different directories replace each other's
  autotuners and routines. The theorems about calls assume `ModulesDiffer`.
- A routine library replaces the functions of routines that were declared by a
  program (`AutotunerEngine.cpp:338`). In ProgramLoader a call of such a routine
  counts as executing the declaring program.
- Structs of a load that fails in its wrappers stay registered by pointer while
  the program that owns them is destroyed (`AutotunerEngine.cpp:127`).
- A second registration of a name replaces the function and keeps the old
  signature (`FunctionRegistry.cpp:67`).
- Extern routines are registered by bare name only (`AutotunerEngine.cpp:722`):
  if two modules declare one of the same name, the qualified call of either
  reaches the one loaded last. `ExternCallsReachModule` excludes that case.

The language:

- The parser reports an assignment to an input parameter and goes on
  (`parser.y:906`): the program is accepted and executes it
  (`LANGUAGE_REFERENCE.md:175` calls inputs read-only).
- No member name is checked: `o.x = v` gives an object a member its struct has not
  got (`parser.y:819`, `StmtExecutor.cpp:272`), and reading `o.x` of an object
  without `x` gives it the `int64` 0 (`ExprEvaluator.cpp:296`,
  `PrimitiveTypes.hpp:141`). After `Box b;`, a routine that reads `this.total`
  goes on with the initializer of `total` in its copy, and the object holds 0.
- A field assignment to any object overwrites the variable of that name in the
  innermost call (`StmtExecutor.cpp:285`); the copies of an outer call on the same
  object stay old. `OwnWritesAreSeen` excepts these fields, and those
  that a read has inserted, by `disturbed`.
- A parameter named like a field its object has not got becomes that field on
  return. An output without a value throws after the fields are written back.

Wrappers:

- `MCAvoided` lists the routines whose wrapper disagrees with the `.fal` file.
  Some refuse the arguments that are declared: `ControlArray.Reshape` looks for
  a bare array where the interpreter passes a handle
  (`control-array-wrapper.cpp:233`). Some return another type:
  `DeviceCharacteristic.GetPlungerGate` a string for a `Connection`,
  `Ports.IsKnobs` a `bool` for an `Array<bool>`. Some give nil for certain
  arguments: `strings.ToInt` of a text that is no number, `database.GetByName` of
  an unknown name. A few cast to a type the object has not got, such as
  `AcquisitionContext.Division` (`acquisition-context-wrapper.cpp:112`). The
  properties of ForeignCalls are about the other routines.
- `array-wrapper.cpp:24` calls it undefined behaviour to pack a `shared_ptr<T>*`
  where `get_opaque` and the engine read a `shared_ptr<void>*`
  (`FFIHelpers.hpp:286`). The database wrapper (`database-wrapper.cpp:92`), the
  testing wrapper (`testing-wrapper.cpp:115`) and the array results of falconCore
  (`control-array-wrapper.cpp:64`) pack so. The tables take such a pointer for the
  object it owns, which is what the standard libraries in use make of it, their
  `shared_ptr<T>` having one layout for all T.
- `InterpretationContainer` and `HDF5Data` have wrappers that do not compile as
  they are; `labelledArrays.fal` imports a path that does not exist.
- The cells that `pack_params` allocates are never freed (`falcon_ffi.h:53`).
  `PopBack` names its element with a string that is gone
  (`array-wrapper.cpp:134`).
- `StdoutCapture` reads its pipe only when the capture ends
  (`io-wrapper.cpp:118`): a program that writes more than a pipe holds blocks.
- `Map.Contains` compares structs by pointer where `IndexOf` compares contents,
  native handles excepted.

The database:

- `validate_snapshot` looks for the required keys, not at the types of all values
  (`SnapshotManager.cpp:73`): what it accepts may throw half-way through an
  import, after `--clear` has emptied the table, and nothing puts back what was
  there. `StoppedRestoreIsPrefix` says what is in the table then.
- The header calls the connection thread-safe (`DatabaseConnection.hpp:17`), and
  transactions begin on `conn_` outside the mutex (`DatabaseConnection.cpp:116`):
  two threads would open two transactions on one connection, which libpqxx
  refuses. The model gives each connection one thread.
- Whether an export could be written is not looked at.

The test harness:

- A test state that any state of its suite names as a target, itself included,
  or that a comment names so, is a continuation and not run; falcon-test exits
  with 0, whether or not anything ever goes to it. `ZeroMeansAllPassed` is about
  the others.
- `terminal` in a test ends the suite with `failed = 0`; the tests that were not
  run do not show in the exit code. `ZeroMeansAllPassed` excepts such suites.
- An exception in a test stops all later tests, suites and files.

## What is not modelled

- Conversions without state: JSON, YAML and index text, the syntax of the
  language, arithmetic of expressions, the columns of a row. What a wrapped
  routine computes.
- The message definitions, the command lines, the hub and the logger: sequences
  of calls and conversions around modules that are modelled.
- The parser and compiler. What the parser accepts is where the models begin;
  bison generates it, and its global scope sets (`parser.y:33`) are listed as a
  hazard without a property.
- The language server: each provider is a function of one document.
- `jetstream_pull`'s loop over single messages, and `pull_measurement_data`,
  which turns its failures into an empty result.
- The cache of compiled wrappers; binding of named and default call arguments;
  built-in methods; structs instantiated from generic ones.
- `Map`, which is FAL code over two arrays, and the order of elements in arrays.
- Several threads on one database connection, which the code does not support;
  which query finds which row.
- The scanning of source text by falcon-test (braces, regular expressions) and its
  `--dump`.
- The broker, the hub, PostgreSQL, the file system's own guarantees and the
  device simulator are external: the models assume only what the code relies on.
- Generated and vendored code: `parser.tab.cc`, the tree-sitter grammar, editor
  queries; the simulations of the demos and of qarrayDevice.

## What could follow

- A model of the wrapper cache on ProgramLoader: libraries tested with
  `exists()`, a compilation cut short, changed flags and sources.
- `jetstream_pull` as receive and acknowledge of single messages, with failures
  in between, up to the empty result that hub.cpp indexes.
- `Map` against a function; the parser's scope sets against what an aborted parse
  leaves in them; the import resolver of the language server.
