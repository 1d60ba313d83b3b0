---------------------------- MODULE ProgramLoader ----------------------------
(***************************************************************************)
(* AutotunerEngine::load_fal_file() and the tables it fills.  Loading a    *)
(* file loads the files it imports first, each by a recursive call, parses *)
(* it with the struct names its imports export, and registers what it      *)
(* declares: structs and functions by bare and by qualified name.  A file  *)
(* that cannot be read, resolved, parsed or compiled fails the whole chain *)
(* of loads; what they had registered stays.                               *)
(*                                                                         *)
(* Imports and wrappers are taken in any order: the order is that of the   *)
(* text, and nothing here depends on it.                                   *)
(***************************************************************************)
EXTENDS Naturals, Sequences, FiniteSets

CONSTANTS
  Files,        \* source files, by canonical path
  ImportsOf,    \* ImportsOf[f]: the files f imports
  ModuleOf,     \* ModuleOf[f]: the stem of its path
  Symbols,      \* the names files declare
  StructsOf,    \* what f declares: structs,
  AutotunersOf, \*   autotuners,
  InlineOf,     \*   routines with a body,
  ExternOf,     \*   and routines without one
  WrappersOf,   \* WrappersOf[f]: the wrappers f names in ffimports
  ExportsOf,    \* ExportsOf[w]: the routines and the structs w implements
  Bare,         \* the qualifier of an unqualified name
  None,         \* nothing registered under a name
  MaxDepth,     \* bound: loads within loads
  MaxPrograms   \* bound: programs parsed

ASSUME FilesAssumption ==
  \A f \in Files :
    /\ ImportsOf[f] \subseteq Files
    /\ UNION {StructsOf[f], AutotunersOf[f], InlineOf[f], ExternOf[f]}
         \subseteq Symbols

ASSUME BoundsAssumption == MaxDepth \in Nat /\ MaxPrograms \in Nat

ASSUME BareAssumption == \A f \in Files : ModuleOf[f] # Bare

Modules == {ModuleOf[f] : f \in Files}

Names == (Modules \cup {Bare}) \X Symbols

\* A parsed file; serial tells the times it was parsed apart.
Program == [file : Files, serial : 1..MaxPrograms]

Definition == [kind : {"autotuner", "inline", "extern"}, program : Program]

ASSUME NoneAssumption == None \notin Program /\ None \notin Definition

VARIABLES
  stack,        \* the calls of load_fal_file in progress, innermost last
  parsed,       \* programs parsed so far
  loaded,       \* loaded_paths_
  programs,     \* loaded_programs_, which keeps them alive
  byPath,       \* loaded_programs_by_path_
  hints,        \* import_struct_hints_
  structs,      \* struct_registry_
  methods,      \* ffi_methods_, by the struct they belong to
  autotuners,   \* loaded_autotuners_
  routines,     \* routine_declarations_
  functions,    \* FunctionRegistry::functions_
  signatures    \* FunctionRegistry::signatures_

kept == <<loaded, programs, byPath, autotuners, routines>>
called == <<functions, signatures>>
vars == <<stack, parsed, hints, structs, methods, kept, called>>

Steps == {"resolve", "imports", "wrappers"}

Frame == [file : Files, step : Steps, imports : SUBSET Files,
          wrappers : SUBSET UNION {WrappersOf[f] : f \in Files},
          serial : 0..MaxPrograms]

TypeOK ==
  /\ stack \in Seq(Frame)
  /\ Len(stack) <= MaxDepth
  /\ parsed \in 0..MaxPrograms
  /\ loaded \subseteq Files
  /\ programs \subseteq Program
  /\ byPath \in [Files -> Program \cup {None}]
  /\ hints \subseteq Names
  /\ structs \in [Names -> Program \cup {None}]
  /\ methods \in [Symbols -> Program \cup {None}]
  /\ autotuners \in [Names -> Program \cup {None}]
  /\ routines \in [Names -> Program \cup {None}]
  /\ functions \in [Names -> Definition \cup {None}]
  /\ signatures \in [Names -> Definition \cup {None}]

Init ==
  /\ stack = <<>> /\ parsed = 0
  /\ loaded = {} /\ programs = {} /\ hints = {}
  /\ byPath = [f \in Files |-> None]
  /\ methods = [s \in Symbols |-> None]
  /\ structs = [n \in Names |-> None]
  /\ autotuners = [n \in Names |-> None]
  /\ routines = [n \in Names |-> None]
  /\ functions = [n \in Names |-> None]
  /\ signatures = [n \in Names |-> None]

-----------------------------------------------------------------------------
Depth == Len(stack)

Top == stack[Depth]

At(step) == stack # <<>> /\ Top.step = step

Becomes(frame) == stack' = [stack EXCEPT ![Depth] = frame]

Push(f) ==
  /\ Depth < MaxDepth
  /\ stack' = Append(stack, [file |-> f, step |-> "resolve", imports |-> {},
                             wrappers |-> {}, serial |-> 0])

Own(f, S) == {ModuleOf[f]} \X S

BareAndOwn(f, S) == {Bare, ModuleOf[f]} \X S

(* map[n] = v for each n in S, and map.emplace(n, v), which keeps what is   *)
(* there.                                                                   *)
Assign(map, S, v) == [n \in DOMAIN map |-> IF n \in S THEN v ELSE map[n]]

Emplace(map, S, v) ==
  [n \in DOMAIN map |-> IF n \in S /\ map[n] = None THEN v ELSE map[n]]

-----------------------------------------------------------------------------
(* load_fal_file()                                                         *)

\* The host of the engine loads a file, whether it is loaded already or not.
Load(f) ==
  /\ stack = <<>>
  /\ parsed + Cardinality(Files) <= MaxPrograms
  /\ Push(f)
  /\ UNCHANGED <<parsed, hints, structs, methods, kept, called>>

\* Fault: an import that fails to load is left out.
FailAlone ==
  /\ stack # <<>>
  /\ At("wrappers") => Top.wrappers # {}
  /\ stack' = IF Depth = 1 THEN <<>>
              ELSE [SubSeq(stack, 1, Depth - 1)
                      EXCEPT ![Depth - 1].imports = @ \ {Top.file}]
  /\ UNCHANGED <<parsed, hints, structs, methods, kept, called>>

\* The file or an import cannot be found or stored in the cache, a syntax
\* error, a wrapper that cannot be compiled: every load in progress returns
\* false.  Once the wrappers are in, nothing fails.
Fail ==
  /\ stack # <<>>
  /\ At("wrappers") => Top.wrappers # {}
  /\ stack' = <<>>
  /\ UNCHANGED <<parsed, hints, structs, methods, kept, called>>

\* Fault: a file without imports is not parsed.
ResolveUnparsed ==
  /\ At("resolve")
  /\ Becomes([Top EXCEPT !.step = IF ImportsOf[Top.file] = {} THEN "wrappers"
                                  ELSE "imports",
                         !.imports = ImportsOf[Top.file]])
  /\ UNCHANGED <<parsed, hints, structs, methods, kept, called>>

Resolve ==
  /\ At("resolve")
  /\ Becomes([Top EXCEPT !.step = "imports", !.imports = ImportsOf[Top.file]])
  /\ UNCHANGED <<parsed, hints, structs, methods, kept, called>>

\* Fault: an import is loaded whether or not it has been.
ImportAlways ==
  /\ At("imports")
  /\ \E f \in Top.imports : Push(f)
  /\ UNCHANGED <<parsed, hints, structs, methods, kept, called>>

Import ==
  /\ At("imports")
  /\ \E f \in Top.imports \ loaded : Push(f)
  /\ UNCHANGED <<parsed, hints, structs, methods, kept, called>>

Imported ==
  /\ At("imports")
  /\ \E f \in Top.imports \cap loaded :
       /\ Becomes([Top EXCEPT !.imports = @ \ {f}])
       /\ hints' = IF byPath[f] = None THEN hints
                   ELSE hints \cup BareAndOwn(f, StructsOf[f])
  /\ UNCHANGED <<parsed, structs, methods, kept, called>>

\* Fault: the hints are used up by the file that is parsed with them.
ParseClearsHints ==
  LET f == Top.file
      p == [file |-> f, serial |-> parsed + 1] IN
  /\ At("imports") /\ Top.imports = {}
  /\ parsed < MaxPrograms
  /\ parsed' = parsed + 1
  /\ hints' = {}
  /\ structs' = Assign(structs, BareAndOwn(f, StructsOf[f]), p)
  /\ Becomes([Top EXCEPT !.step = "wrappers", !.wrappers = WrappersOf[f],
                         !.serial = parsed + 1])
  /\ UNCHANGED <<methods, kept, called>>

\* parse_file() succeeds, and the structs are registered.
Parse ==
  LET f == Top.file
      p == [file |-> f, serial |-> parsed + 1] IN
  /\ At("imports") /\ Top.imports = {}
  /\ parsed < MaxPrograms
  /\ parsed' = parsed + 1
  /\ structs' = Assign(structs, BareAndOwn(f, StructsOf[f]), p)
  /\ Becomes([Top EXCEPT !.step = "wrappers", !.wrappers = WrappersOf[f],
                         !.serial = parsed + 1])
  /\ UNCHANGED <<hints, methods, kept, called>>

\* Fault: what w exports is registered whether f declares it or not.
ProcessAllExports ==
  LET f == Top.file
      p == [file |-> f, serial |-> Top.serial] IN
  /\ At("wrappers")
  /\ \E w \in Top.wrappers :
       LET found == {Bare} \X ExportsOf[w]
           d == [kind |-> "extern", program |-> p] IN
       /\ functions' = Assign(functions, found, d)
       /\ signatures' = Emplace(signatures, found, d)
       /\ methods' = Assign(methods, StructsOf[f] \cap ExportsOf[w], p)
       /\ Becomes([Top EXCEPT !.wrappers = @ \ {w}])
  /\ UNCHANGED <<parsed, hints, structs, kept>>

\* process_ff_import(): bare names only; what w does not export is skipped.
ProcessFFImport ==
  LET f == Top.file
      p == [file |-> f, serial |-> Top.serial] IN
  /\ At("wrappers")
  /\ \E w \in Top.wrappers :
       LET found == {Bare} \X (ExternOf[f] \cap ExportsOf[w])
           d == [kind |-> "extern", program |-> p] IN
       /\ functions' = Assign(functions, found, d)
       /\ signatures' = Emplace(signatures, found, d)
       /\ methods' = Assign(methods, StructsOf[f] \cap ExportsOf[w], p)
       /\ Becomes([Top EXCEPT !.wrappers = @ \ {w}])
  /\ UNCHANGED <<parsed, hints, structs, kept>>

Definitions(f, p) ==
  LET auto == BareAndOwn(f, AutotunersOf[f])
      inline == BareAndOwn(f, InlineOf[f])
      a == [kind |-> "autotuner", program |-> p]
      i == [kind |-> "inline", program |-> p] IN
  /\ functions' = Assign(Assign(functions, auto, a), inline, i)
  /\ signatures' = Emplace(Emplace(signatures, auto, a), inline, i)

Keep(f, p) ==
  /\ programs' = programs \cup {p}
  /\ byPath' = [byPath EXCEPT ![f] = p]
  /\ loaded' = loaded \cup {f}

Pop == stack' = SubSeq(stack, 1, Depth - 1)

\* Fault: a file that is loaded again leaves the declarations there are.
RegisterFirst ==
  LET f == Top.file
      p == [file |-> f, serial |-> Top.serial] IN
  /\ At("wrappers") /\ Top.wrappers = {}
  /\ autotuners' = Emplace(autotuners, Own(f, AutotunersOf[f]), p)
  /\ routines' = Emplace(routines, Own(f, InlineOf[f] \cup ExternOf[f]), p)
  /\ Definitions(f, p)
  /\ Keep(f, p)
  /\ Pop
  /\ UNCHANGED <<parsed, hints, structs, methods>>

\* The rest of load_fal_file(): autotuners and routines are registered.
Register ==
  LET f == Top.file
      p == [file |-> f, serial |-> Top.serial] IN
  /\ At("wrappers") /\ Top.wrappers = {}
  /\ autotuners' = Assign(autotuners, Own(f, AutotunersOf[f]), p)
  /\ routines' = Assign(routines, Own(f, InlineOf[f] \cup ExternOf[f]), p)
  /\ Definitions(f, p)
  /\ Keep(f, p)
  /\ Pop
  /\ UNCHANGED <<parsed, hints, structs, methods>>

(* load_routine_library(): a library implements a routine that is declared, *)
(* under the name it was declared by.                                       *)
LoadRoutineLibrary(n) ==
  /\ stack = <<>>
  /\ routines[n] # None
  /\ LET d == [kind |-> "extern", program |-> routines[n]] IN
       /\ functions' = Assign(functions, {n}, d)
       /\ signatures' = Emplace(signatures, {n}, d)
  /\ UNCHANGED <<stack, parsed, hints, structs, methods, kept>>

\* The host has nothing more to load.
HostIsDone == stack = <<>> /\ UNCHANGED vars

-----------------------------------------------------------------------------
Loading ==
  \/ Resolve \/ Import \/ Imported \/ Parse \/ ProcessFFImport \/ Register

Next ==
  \/ \E f \in Files : Load(f)
  \/ Loading \/ Fail
  \/ \E n \in Names : LoadRoutineLibrary(n)
  \/ HostIsDone

Spec == Init /\ [][Next]_vars

-----------------------------------------------------------------------------
(* What a call reaches.                                                    *)

\* eval_call(): the name as it is written, or else without its qualifier.
Resolved(n) == IF functions[n] # None THEN n ELSE <<Bare, n[2]>>

\* The program whose code a call of n executes: an autotuner and an inline
\* routine are looked up by qualified name when they are called.
Executes(n) ==
  LET d == functions[n]
      q == <<ModuleOf[d.program.file], n[2]>> IN
  CASE d.kind = "autotuner" -> autotuners[q]
    [] d.kind = "inline" -> routines[q]
    [] OTHER -> d.program

-----------------------------------------------------------------------------
(* Properties.                                                             *)

(* A file counts as loaded only when everything it imports does, through   *)
(* failures, diamonds of imports and reloads.                              *)
ImportsComeFirst == \A f \in loaded : ImportsOf[f] \subseteq loaded

\* What f imports, directly or not: the files in every set that holds the
\* imports of f and those of its own members.
Reachable(f) ==
  {g \in Files :
     \A S \in SUBSET Files :
       /\ ImportsOf[f] \subseteq S
       /\ \A h \in S : ImportsOf[h] \subseteq S
       => g \in S}

(* Transitive imports work: when a file is parsed, the parser has been     *)
(* told the structs of every file it imports, directly or not.             *)
ParsedWithHints ==
  At("imports") /\ Top.imports = {} =>
    \A f \in Reachable(Top.file) :
      BareAndOwn(f, StructsOf[f]) \subseteq hints

(* A qualified call of an autotuner or an inline routine of a loaded file  *)
(* executes the file as it was last loaded, whatever the other files call  *)
(* their symbols and however often the file or a library is loaded.        *)
QualifiedReachesNewest ==
  \A f \in loaded : \A s \in AutotunersOf[f] \cup InlineOf[f] :
    Executes(<<ModuleOf[f], s>>) = byPath[f]

(* However many files import it, a file is not parsed for an import once it *)
(* is loaded.                                                               *)
ImportsAreLoadedOnce ==
  [][parsed' # parsed /\ Depth > 1 => Top.file \notin loaded]_vars

(* A file is not loaded again while it is being loaded.                    *)
NoImportLoop ==
  \A i, j \in 1..Depth : stack[i].file = stack[j].file => i = j

(* A call qualified with a module reaches the extern routine of that module *)
(* although only its bare name is registered, as long as no other file      *)
(* declares a function of the name, whatever the wrappers of others export. *)
OnlyDeclaredBy(f, s) ==
  \A g \in Files \ {f} : s \notin UNION {AutotunersOf[g], InlineOf[g], ExternOf[g]}

ExternCallsReachModule ==
  \A f \in loaded, s \in Symbols :
    /\ OnlyDeclaredBy(f, s)
    /\ \E w \in WrappersOf[f] : s \in ExternOf[f] \cap ExportsOf[w]
    =>
      Executes(Resolved(<<ModuleOf[f], s>>)).file = f
=============================================================================
