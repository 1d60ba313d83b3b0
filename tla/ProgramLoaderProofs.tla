------------------------- MODULE ProgramLoaderProofs -------------------------
(***************************************************************************)
(* Proofs about the loader, for every graph of imports.  Three invariants  *)
(* lie one on the other: IInv says of each load in progress what its       *)
(* position implies, the imports it has gone past are loaded and a load    *)
(* past the parser has a program; LoadInv, what a load has learned and     *)
(* that only the outermost can be of a loaded file; TablesInv, which       *)
(* program each table holds under each name.                               *)
(***************************************************************************)
EXTENDS ProgramLoader, SequenceTheorems, TLAPS

InOrder(f) ==
  /\ f.step = "imports" => ImportsOf[f.file] \subseteq loaded \cup f.imports
  /\ f.step = "wrappers" => /\ ImportsOf[f.file] \subseteq loaded
                            /\ f.serial # 0

FramesInOrder == \A i \in 1..Depth : InOrder(stack[i])

IInv == TypeOK /\ ImportsComeFirst /\ FramesInOrder

-----------------------------------------------------------------------------
(* The stack of loads.                                                     *)

LEMMA TopFacts ==
  ASSUME TypeOK, stack # <<>>
  PROVE  Depth \in Nat /\ Depth > 0 /\ Top \in Frame
<1>1. Depth \in Nat /\ Depth > 0 /\ Depth \in 1..Len(stack)
  BY EmptySeq, LenProperties DEF TypeOK, Depth
<1>2. QED  BY <1>1, ElementOfSeq DEF TypeOK, Top, Depth

LEMMA BecomesFacts ==
  ASSUME TypeOK, stack # <<>>, NEW f \in Frame, Becomes(f)
  PROVE  /\ stack' \in Seq(Frame)
         /\ Depth' = Depth
         /\ \A i \in 1..Depth : stack'[i] = IF i = Depth THEN f ELSE stack[i]
<1>1. Depth \in 1..Len(stack)  BY TopFacts DEF Depth
<1>2. QED  BY <1>1, ExceptSeq DEF TypeOK, Becomes, Depth

LEMMA PushFacts ==
  ASSUME TypeOK, NEW f \in Files, Push(f)
  PROVE  /\ stack' \in Seq(Frame)
         /\ Depth' = Depth + 1
         /\ Depth \in Nat
         /\ \A i \in 1..Depth : stack'[i] = stack[i]
         /\ stack'[Depth + 1].step = "resolve"
         /\ stack'[Depth + 1].file = f /\ stack'[Depth + 1].imports = {}
<1> DEFINE new == [file |-> f, step |-> "resolve", imports |-> {},
                   wrappers |-> {}, serial |-> 0]
<1>1. new \in Frame  BY BoundsAssumption DEF Frame, Steps
<1>2. Depth \in Nat  BY LenProperties DEF TypeOK, Depth
<1>3. stack' = Append(stack, new)  BY DEF Push
<1>4. QED  BY <1>1, <1>2, <1>3, AppendProperties DEF TypeOK, Depth

LEMMA PopFacts ==
  ASSUME TypeOK, stack # <<>>, Pop
  PROVE  /\ stack' \in Seq(Frame)
         /\ Depth' = Depth - 1
         /\ \A i \in 1..Depth - 1 : stack'[i] = stack[i]
<1>1. Depth \in Nat /\ Depth > 0 /\ Len(stack) = Depth
  BY TopFacts DEF Depth
<1>2. \A i \in 1..Depth - 1 : stack[i] \in Frame
  BY <1>1, ElementOfSeq DEF TypeOK
<1>3. stack' = SubSeq(stack, 1, Depth - 1)  BY DEF Pop
<1>4. /\ stack' \in Seq(Frame)
      /\ Len(stack') = Depth - 1
      /\ \A i \in 1..Depth - 1 : stack'[i] = stack[i]
  BY <1>1, <1>2, <1>3, SubSeqProperties
<1>5. QED  BY <1>4 DEF Depth

-----------------------------------------------------------------------------
(* The tables.                                                             *)

LEMMA TableFacts ==
  ASSUME NEW D, NEW V, NEW map \in [D -> V \cup {None}], NEW S, NEW v \in V
  PROVE  /\ Assign(map, S, v) \in [D -> V \cup {None}]
         /\ Emplace(map, S, v) \in [D -> V \cup {None}]
BY DEF Assign, Emplace

LEMMA HintFacts ==
  ASSUME NEW f \in Files
  PROVE  BareAndOwn(f, StructsOf[f]) \subseteq Names
BY FilesAssumption DEF BareAndOwn, Names, Modules

-----------------------------------------------------------------------------
(* Each action preserves the invariant.                                    *)

LEMMA LoadPreserves ==
  ASSUME IInv, NEW f \in Files, Push(f),
         UNCHANGED <<parsed, hints, structs, methods, kept, called>>
  PROVE  IInv'
<1>1. /\ stack' \in Seq(Frame) /\ Depth' = Depth + 1 /\ Depth \in Nat
      /\ \A i \in 1..Depth : stack'[i] = stack[i]
      /\ stack'[Depth + 1].step = "resolve"
  BY PushFacts DEF IInv
<1>2. Len(stack') <= MaxDepth
  BY <1>1, BoundsAssumption DEF Push, Depth
<1>3. TypeOK'  BY <1>1, <1>2 DEF IInv, TypeOK, kept, called
<1>4. ImportsComeFirst'  BY DEF IInv, ImportsComeFirst, kept
<1>5. FramesInOrder'
  BY <1>1 DEF IInv, FramesInOrder, InOrder, kept
<1>6. QED  BY <1>3, <1>4, <1>5 DEF IInv

LEMMA FailPreserves ==
  ASSUME IInv, Fail
  PROVE  IInv'
<1>1. stack' \in Seq(Frame) /\ Len(stack') = 0
  BY EmptySeq DEF Fail
<1>2. TypeOK'
  BY <1>1, BoundsAssumption DEF IInv, TypeOK, Fail, kept, called
<1>3. ImportsComeFirst'  BY DEF IInv, ImportsComeFirst, Fail, kept
<1>4. FramesInOrder'  BY <1>1 DEF FramesInOrder, Depth
<1>5. QED  BY <1>2, <1>3, <1>4 DEF IInv

(* A step that replaces the innermost frame by one in order, and leaves    *)
(* what is loaded alone.                                                   *)
LEMMA FramePreserves ==
  ASSUME IInv, stack # <<>>, NEW f \in Frame, Becomes(f), InOrder(f),
         loaded' = loaded
  PROVE  /\ stack' \in Seq(Frame) /\ Len(stack') <= MaxDepth
         /\ ImportsComeFirst'
         /\ FramesInOrder'
<1>1. /\ stack' \in Seq(Frame) /\ Depth' = Depth
      /\ \A i \in 1..Depth : stack'[i] = IF i = Depth THEN f ELSE stack[i]
  BY BecomesFacts DEF IInv
<1>2. Len(stack') <= MaxDepth  BY <1>1 DEF IInv, TypeOK, Depth
<1>3. ImportsComeFirst'  BY DEF IInv, ImportsComeFirst
<1>4. FramesInOrder'  BY <1>1 DEF IInv, FramesInOrder, InOrder
<1>5. QED  BY <1>1, <1>2, <1>3, <1>4

LEMMA ResolvePreserves ==
  ASSUME IInv, Resolve
  PROVE  IInv'
<1> DEFINE f == [Top EXCEPT !.step = "imports", !.imports = ImportsOf[Top.file]]
<1>1. stack # <<>> /\ Top \in Frame  BY TopFacts DEF IInv, Resolve, At
<1>2. f \in Frame /\ InOrder(f)
  BY <1>1, FilesAssumption DEF Frame, Steps, InOrder
<1>3. Becomes(f) /\ loaded' = loaded  BY DEF Resolve, kept
<1>4. /\ stack' \in Seq(Frame) /\ Len(stack') <= MaxDepth
      /\ ImportsComeFirst' /\ FramesInOrder'
  BY <1>1, <1>2, <1>3, FramePreserves
<1>5. TypeOK'  BY <1>4 DEF IInv, TypeOK, Resolve, kept, called
<1>6. QED  BY <1>4, <1>5 DEF IInv

LEMMA ImportedPreserves ==
  ASSUME IInv, Imported
  PROVE  IInv'
<1>1. stack # <<>> /\ Top \in Frame /\ Top.step = "imports"
  BY TopFacts DEF IInv, Imported, At
<1>2. PICK g \in Top.imports \cap loaded :
        /\ Becomes([Top EXCEPT !.imports = @ \ {g}])
        /\ hints' = IF byPath[g] = None THEN hints
                    ELSE hints \cup BareAndOwn(g, StructsOf[g])
  BY DEF Imported
<1> DEFINE f == [Top EXCEPT !.imports = @ \ {g}]
<1>3. InOrder(Top)  BY <1>1, TopFacts DEF IInv, FramesInOrder, Top
<1>4. f \in Frame /\ InOrder(f)
  BY <1>1, <1>2, <1>3 DEF Frame, InOrder
<1>5. Becomes(f) /\ loaded' = loaded  BY <1>2 DEF Imported, kept
<1>6. /\ stack' \in Seq(Frame) /\ Len(stack') <= MaxDepth
      /\ ImportsComeFirst' /\ FramesInOrder'
  BY <1>1, <1>4, <1>5, FramePreserves
<1>7. hints' \subseteq Names
  BY <1>2, HintFacts DEF IInv, TypeOK
<1>8. TypeOK'  BY <1>6, <1>7 DEF IInv, TypeOK, Imported, kept, called
<1>9. QED  BY <1>6, <1>8 DEF IInv

LEMMA ParsePreserves ==
  ASSUME IInv, Parse
  PROVE  IInv'
<1> DEFINE p == [file |-> Top.file, serial |-> parsed + 1]
           f == [Top EXCEPT !.step = "wrappers",
                            !.wrappers = WrappersOf[Top.file],
                            !.serial = parsed + 1]
<1>1. stack # <<>> /\ Top \in Frame /\ Top.step = "imports" /\ Top.imports = {}
  BY TopFacts DEF IInv, Parse, At
<1>2. parsed + 1 \in 1..MaxPrograms /\ parsed + 1 \in 0..MaxPrograms
  BY BoundsAssumption DEF IInv, TypeOK, Parse
<1>3. InOrder(Top)  BY <1>1, TopFacts DEF IInv, FramesInOrder, Top
<1>4. WrappersOf[Top.file] \subseteq UNION {WrappersOf[g] : g \in Files}
  BY <1>1 DEF Frame
<1>5. f \in Frame /\ InOrder(f)
  <2>1. f \in Frame
    <3>1. "wrappers" \in Steps  BY DEF Steps
    <3>2. QED  BY <1>1, <1>2, <1>4, <3>1 DEF Frame
  <2>2. f.file = Top.file /\ f.step = "wrappers" /\ f.serial # 0
    BY <1>1, <1>2 DEF Frame
  <2>3. ImportsOf[Top.file] \subseteq loaded  BY <1>1, <1>3 DEF InOrder
  <2>4. QED  BY <2>1, <2>2, <2>3 DEF InOrder
<1>6. Becomes(f) /\ loaded' = loaded  BY DEF Parse, kept
<1>7. /\ stack' \in Seq(Frame) /\ Len(stack') <= MaxDepth
      /\ ImportsComeFirst' /\ FramesInOrder'
  BY <1>1, <1>5, <1>6, FramePreserves
<1>8. structs' \in [Names -> Program \cup {None}]
  <2>1. p \in Program  BY <1>1, <1>2 DEF Program, Frame
  <2>2. structs' = Assign(structs, BareAndOwn(Top.file, StructsOf[Top.file]), p)
    BY DEF Parse
  <2>3. QED  BY <2>1, <2>2, TableFacts DEF IInv, TypeOK
<1>9. parsed' \in 0..MaxPrograms  BY <1>2 DEF Parse
<1>10. TypeOK'  BY <1>7, <1>8, <1>9 DEF IInv, TypeOK, Parse, kept, called
<1>11. QED  BY <1>7, <1>10 DEF IInv

LEMMA WrapperFacts ==
  ASSUME IInv, At("wrappers")
  PROVE  /\ stack # <<>> /\ Top \in Frame /\ InOrder(Top)
         /\ ImportsOf[Top.file] \subseteq loaded
         /\ [file |-> Top.file, serial |-> Top.serial] \in Program
<1>1. stack # <<>> /\ Top.step = "wrappers"  BY DEF At
<1>2. Top \in Frame /\ InOrder(Top)
  BY <1>1, TopFacts DEF IInv, FramesInOrder, Top
<1>3. Top.serial \in 1..MaxPrograms
  BY <1>1, <1>2, BoundsAssumption DEF Frame, InOrder
<1>4. QED  BY <1>1, <1>2, <1>3 DEF Frame, Program, InOrder

LEMMA ProcessFFImportPreserves ==
  ASSUME IInv, ProcessFFImport
  PROVE  IInv'
<1> DEFINE p == [file |-> Top.file, serial |-> Top.serial]
           d == [kind |-> "extern", program |-> p]
           found(w) == {Bare} \X (ExternOf[Top.file] \cap ExportsOf[w])
<1>1. At("wrappers")  BY DEF ProcessFFImport
<1>2. /\ stack # <<>> /\ Top \in Frame /\ InOrder(Top)
      /\ p \in Program
  BY <1>1, WrapperFacts
<1>3. d \in Definition  BY <1>2 DEF Definition
<1>4. PICK w \in Top.wrappers :
        /\ functions' = Assign(functions, found(w), d)
        /\ signatures' = Emplace(signatures, found(w), d)
        /\ methods' = Assign(methods, StructsOf[Top.file] \cap ExportsOf[w], p)
        /\ Becomes([Top EXCEPT !.wrappers = @ \ {w}])
  BY DEF ProcessFFImport
<1> DEFINE f == [Top EXCEPT !.wrappers = @ \ {w}]
<1>5. f \in Frame /\ InOrder(f)  BY <1>2 DEF Frame, InOrder
<1>6. Becomes(f) /\ loaded' = loaded  BY <1>4 DEF ProcessFFImport, kept
<1>7. /\ stack' \in Seq(Frame) /\ Len(stack') <= MaxDepth
      /\ ImportsComeFirst' /\ FramesInOrder'
  BY <1>2, <1>5, <1>6, FramePreserves
<1>8. /\ functions' \in [Names -> Definition \cup {None}]
      /\ signatures' \in [Names -> Definition \cup {None}]
  BY <1>3, <1>4, TableFacts DEF IInv, TypeOK
<1>9. methods' \in [Symbols -> Program \cup {None}]
  BY <1>2, <1>4, TableFacts DEF IInv, TypeOK
<1>10. TypeOK'
  BY <1>7, <1>8, <1>9 DEF IInv, TypeOK, ProcessFFImport, kept
<1>11. QED  BY <1>7, <1>10 DEF IInv

LEMMA RegisterPreserves ==
  ASSUME IInv, Register
  PROVE  IInv'
<1> DEFINE f == Top.file
           p == [file |-> Top.file, serial |-> Top.serial]
           a == [kind |-> "autotuner", program |-> p]
           i == [kind |-> "inline", program |-> p]
<1>1. At("wrappers") /\ Pop /\ Keep(f, p) /\ Definitions(f, p)
  BY DEF Register
<1>2. /\ stack # <<>> /\ Top \in Frame
      /\ ImportsOf[f] \subseteq loaded
      /\ p \in Program
  BY <1>1, WrapperFacts
<1>3. f \in Files  BY <1>2 DEF Frame
<1>4. /\ loaded' = loaded \cup {f}
      /\ programs' = programs \cup {p}
      /\ byPath' = [byPath EXCEPT ![f] = p]
  BY <1>1 DEF Keep
<1>5. /\ stack' \in Seq(Frame) /\ Depth' = Depth - 1
      /\ \A k \in 1..Depth - 1 : stack'[k] = stack[k]
      /\ Depth \in Nat
  BY <1>1, <1>2, PopFacts, TopFacts DEF IInv
<1>6. Len(stack') <= MaxDepth
  BY <1>5, BoundsAssumption DEF IInv, TypeOK, Depth
<1>7. a \in Definition /\ i \in Definition  BY <1>2 DEF Definition
<1>8. /\ functions' \in [Names -> Definition \cup {None}]
      /\ signatures' \in [Names -> Definition \cup {None}]
  <2>1. /\ functions' = Assign(Assign(functions, BareAndOwn(f, AutotunersOf[f]), a),
                               BareAndOwn(f, InlineOf[f]), i)
        /\ signatures' = Emplace(Emplace(signatures, BareAndOwn(f, AutotunersOf[f]), a),
                                 BareAndOwn(f, InlineOf[f]), i)
    BY <1>1 DEF Definitions
  <2>2. /\ Assign(functions, BareAndOwn(f, AutotunersOf[f]), a)
             \in [Names -> Definition \cup {None}]
        /\ Emplace(signatures, BareAndOwn(f, AutotunersOf[f]), a)
             \in [Names -> Definition \cup {None}]
    BY <1>7, TableFacts DEF IInv, TypeOK
  <2>3. QED  BY <1>7, <2>1, <2>2, TableFacts
<1>9. /\ autotuners' \in [Names -> Program \cup {None}]
      /\ routines' \in [Names -> Program \cup {None}]
  <2>1. /\ autotuners' = Assign(autotuners, Own(f, AutotunersOf[f]), p)
        /\ routines' = Assign(routines, Own(f, InlineOf[f] \cup ExternOf[f]), p)
    BY DEF Register
  <2>2. QED  BY <1>2, <2>1, TableFacts DEF IInv, TypeOK
<1>10. byPath' \in [Files -> Program \cup {None}]
  BY <1>2, <1>4 DEF IInv, TypeOK
<1>11. TypeOK'
  BY <1>2, <1>3, <1>4, <1>5, <1>6, <1>8, <1>9, <1>10
  DEF IInv, TypeOK, Register
<1>12. ImportsComeFirst'
  BY <1>2, <1>4 DEF IInv, ImportsComeFirst
<1>13. FramesInOrder'
  BY <1>4, <1>5 DEF IInv, FramesInOrder, InOrder
<1>14. QED  BY <1>11, <1>12, <1>13 DEF IInv

LEMMA LibraryPreserves ==
  ASSUME IInv, NEW n \in Names, LoadRoutineLibrary(n)
  PROVE  IInv'
<1> DEFINE d == [kind |-> "extern", program |-> routines[n]]
<1>1. d \in Definition
  BY DEF IInv, TypeOK, LoadRoutineLibrary, Definition
<1>2. /\ functions' \in [Names -> Definition \cup {None}]
      /\ signatures' \in [Names -> Definition \cup {None}]
  BY <1>1, TableFacts DEF IInv, TypeOK, LoadRoutineLibrary
<1>3. TypeOK'  BY <1>2 DEF IInv, TypeOK, LoadRoutineLibrary, kept
<1>4. ImportsComeFirst'
  BY DEF IInv, ImportsComeFirst, LoadRoutineLibrary, kept
<1>5. FramesInOrder'
  BY DEF IInv, FramesInOrder, InOrder, LoadRoutineLibrary, kept, Depth
<1>6. QED  BY <1>3, <1>4, <1>5 DEF IInv

-----------------------------------------------------------------------------
(* The theorems.                                                           *)

LEMMA InitIInv == Init => IInv
<1> SUFFICES ASSUME Init PROVE IInv
  OBVIOUS
<1>1. <<>> \in Seq(Frame) /\ Len(<<>>) = 0  BY EmptySeq
<1>2. TypeOK
  BY <1>1, BoundsAssumption DEF Init, TypeOK
<1>3. ImportsComeFirst /\ FramesInOrder
  BY <1>1 DEF Init, ImportsComeFirst, FramesInOrder, Depth
<1>4. QED  BY <1>2, <1>3 DEF IInv

LEMMA NextIInv == IInv /\ [Next]_vars => IInv'
<1> SUFFICES ASSUME IInv, [Next]_vars PROVE IInv'
  OBVIOUS
<1>1. ASSUME NEW f \in Files, Load(f) PROVE IInv'
  BY <1>1, LoadPreserves DEF Load
<1>2. CASE Import
  <2>1. PICK f \in Top.imports \ loaded : Push(f)  BY <1>2 DEF Import
  <2>2. f \in Files
    BY <1>2, TopFacts DEF IInv, Import, At, Frame
  <2>3. QED  BY <1>2, <2>1, <2>2, LoadPreserves DEF Import
<1>3. ASSUME NEW n \in Names, LoadRoutineLibrary(n) PROVE IInv'
  BY <1>3, LibraryPreserves
<1>4. CASE HostIsDone \/ UNCHANGED vars
  BY <1>4 DEF HostIsDone, vars, kept, called, IInv, TypeOK, ImportsComeFirst,
              FramesInOrder, InOrder, Depth
<1>5. QED
  BY <1>1, <1>2, <1>3, <1>4, FailPreserves, ResolvePreserves,
     ImportedPreserves, ParsePreserves, ProcessFFImportPreserves,
     RegisterPreserves DEF Next, Loading

LEMMA Invariance == Spec => []IInv
BY InitIInv, NextIInv, PTL DEF Spec

(* The tables of the engine keep their types; a program that registers its *)
(* declarations has been parsed.                                           *)
THEOREM TypeCorrect == Spec => []TypeOK
<1>1. IInv => TypeOK  BY DEF IInv
<1>2. QED  BY <1>1, Invariance, PTL

(* Whatever the graph of imports and whichever loads fail, a file that     *)
(* counts as loaded has all its imports loaded.                            *)
THEOREM ImportsLoaded == Spec => []ImportsComeFirst
<1>1. IInv => ImportsComeFirst  BY DEF IInv
<1>2. QED  BY <1>1, Invariance, PTL

-----------------------------------------------------------------------------
(* What a load knows.  The structs of an import are hints from the moment  *)
(* the load goes past it, a routine of a wrapper has a function from the   *)
(* moment the wrapper is processed, and a loaded file has both.            *)
Hinted(g, h) == BareAndOwn(g, StructsOf[g]) \subseteq h

Wrapped(f, W, fn) ==
  \A w \in W : \A s \in ExternOf[f] \cap ExportsOf[w] : fn[<<Bare, s>>] # None

Sound(f, h, fn) ==
  /\ f.imports \subseteq ImportsOf[f.file]
  /\ f.step # "resolve" =>
       \A g \in ImportsOf[f.file] \ f.imports : Hinted(g, h)
  /\ f.step = "wrappers" =>
       /\ f.imports = {}
       /\ Wrapped(f.file, WrappersOf[f.file] \ f.wrappers, fn)

Complete(f, h, fn, bp) ==
  /\ bp[f] # None /\ bp[f].file = f
  /\ \A g \in ImportsOf[f] : Hinted(g, h)
  /\ Wrapped(f, WrappersOf[f], fn)

(* Every load but the outermost was started because its file was not       *)
(* loaded, and it still is not.                                            *)
LoadInv ==
  /\ \A i \in 1..Depth : Sound(stack[i], hints, functions)
  /\ \A i \in 1..Depth - 1 :
       stack[i + 1].file \in ImportsOf[stack[i].file] \ loaded
  /\ \A f \in loaded : Complete(f, hints, functions, byPath)

(* Hints and functions are never taken away.                               *)
Grows ==
  /\ hints \subseteq hints'
  /\ \A s \in Symbols : functions[<<Bare, s>>] # None =>
                          functions'[<<Bare, s>>] # None

LEMMA GrowthKeeps ==
  ASSUME Grows
  PROVE  /\ \A f \in Frame : Sound(f, hints, functions) =>
                               Sound(f, hints', functions')
         /\ \A f \in Files : \A bp :
              Complete(f, hints, functions, bp) =>
                Complete(f, hints', functions', bp)
<1>1. \A g : Hinted(g, hints) => Hinted(g, hints')  BY DEF Grows, Hinted
<1>2. ASSUME NEW f \in Files, NEW W, Wrapped(f, W, functions)
      PROVE  Wrapped(f, W, functions')
  <2>1. ExternOf[f] \subseteq Symbols  BY FilesAssumption
  <2>2. QED  BY <1>2, <2>1 DEF Wrapped, Grows
<1>3. \A f \in Frame : f.file \in Files  BY DEF Frame
<1>4. QED  BY <1>1, <1>2, <1>3 DEF Sound, Complete

LEMMA LoadedAreComplete ==
  ASSUME TypeOK, LoadInv, Grows, loaded' = loaded, byPath' = byPath
  PROVE  \A f \in loaded' : Complete(f, hints', functions', byPath')
BY GrowthKeeps DEF LoadInv, TypeOK

(* The innermost load goes on.                                             *)
LEMMA FrameKeeps ==
  ASSUME TypeOK, LoadInv, Grows, stack # <<>>,
         NEW t \in Frame, Becomes(t), t.file = Top.file,
         Sound(t, hints', functions'), loaded' = loaded, byPath' = byPath
  PROVE  LoadInv'
<1>1. /\ Depth' = Depth /\ Depth \in Nat
      /\ \A i \in 1..Depth : stack'[i] = IF i = Depth THEN t ELSE stack[i]
      /\ \A i \in 1..Depth : stack'[i].file = stack[i].file
  BY BecomesFacts, TopFacts DEF Top
<1>2. \A i \in 1..Depth : stack[i] \in Frame
  BY ElementOfSeq DEF TypeOK, Depth
<1>3. \A i \in 1..Depth : Sound(stack'[i], hints', functions')
  BY <1>1, <1>2, GrowthKeeps DEF LoadInv
<1>4. \A i \in 1..Depth - 1 :
        stack'[i + 1].file \in ImportsOf[stack'[i].file] \ loaded
  <2>1. \A i \in 1..Depth - 1 : i \in 1..Depth /\ i + 1 \in 1..Depth
    BY <1>1
  <2>2. QED  BY <1>1, <2>1 DEF LoadInv
<1>5. QED  BY <1>1, <1>3, <1>4, LoadedAreComplete DEF LoadInv

(* A load is started: by the host, or for an import that is not loaded.    *)
LEMMA PushKeeps ==
  ASSUME TypeOK, LoadInv, NEW f \in Files, Push(f),
         stack # <<>> => f \in ImportsOf[Top.file] \ loaded,
         UNCHANGED <<hints, functions, loaded, byPath>>
  PROVE  LoadInv'
<1>1. /\ Depth' = Depth + 1 /\ Depth \in Nat
      /\ \A i \in 1..Depth : stack'[i] = stack[i]
      /\ stack'[Depth + 1].step = "resolve" /\ stack'[Depth + 1].file = f
      /\ stack'[Depth + 1].imports = {}
  BY PushFacts
<1>2. Sound(stack'[Depth + 1], hints, functions)  BY <1>1 DEF Sound
<1>3. \A i \in 1..Depth + 1 : Sound(stack'[i], hints, functions)
  <2>1. \A i \in 1..Depth + 1 : i \in 1..Depth \/ i = Depth + 1  BY <1>1
  <2>2. QED  BY <1>1, <1>2, <2>1 DEF LoadInv
<1>4. ASSUME NEW i \in 1..Depth
      PROVE  stack'[i + 1].file \in ImportsOf[stack'[i].file] \ loaded
  <2>1. CASE i = Depth
    <3>1. stack # <<>>  BY <1>1, <2>1, EmptySeq DEF Depth
    <3>2. QED  BY <1>1, <2>1, <3>1 DEF Top
  <2>2. CASE i # Depth
    <3>1. i \in 1..Depth - 1 /\ i + 1 \in 1..Depth  BY <1>1, <2>2
    <3>2. QED  BY <1>1, <3>1 DEF LoadInv
  <2>3. QED  BY <2>1, <2>2
<1>5. QED  BY <1>1, <1>3, <1>4 DEF LoadInv

LEMMA NoFrames ==
  ASSUME LoadInv, stack' = <<>>, UNCHANGED <<hints, functions, loaded, byPath>>
  PROVE  LoadInv'
<1>1. Depth' = 0  BY EmptySeq DEF Depth
<1>2. QED  BY <1>1 DEF LoadInv

-----------------------------------------------------------------------------
(* The tables after a step.                                                *)
LEMMA AssignAt ==
  ASSUME NEW D, NEW map, DOMAIN map = D, NEW S, NEW v
  PROVE  \A n \in D : Assign(map, S, v)[n] = IF n \in S THEN v ELSE map[n]
BY DEF Assign

LEMMA BareNames == \A s \in Symbols : <<Bare, s>> \in Names
BY DEF Names

LEMMA AssignGrows ==
  ASSUME TypeOK, NEW S, NEW d \in Definition,
         functions' = Assign(functions, S, d), hints' = hints
  PROVE  Grows
<1>1. d # None  BY NoneAssumption
<1>2. \A n \in Names : functions'[n] = IF n \in S THEN d ELSE functions[n]
  BY AssignAt DEF TypeOK
<1>3. QED  BY <1>1, <1>2, BareNames DEF Grows

-----------------------------------------------------------------------------
(* Each action.                                                            *)
LEMMA TopSound ==
  ASSUME TypeOK, LoadInv, stack # <<>>
  PROVE  Top \in Frame /\ Top.file \in Files /\ Sound(Top, hints, functions)
<1>1. Depth \in 1..Depth /\ Top \in Frame  BY TopFacts
<1>2. QED  BY <1>1 DEF LoadInv, Top, Frame

LEMMA ResolveLoads ==
  ASSUME TypeOK, LoadInv, Resolve
  PROVE  LoadInv'
<1> DEFINE t == [Top EXCEPT !.step = "imports",
                            !.imports = ImportsOf[Top.file]]
<1>1. stack # <<>> /\ Becomes(t)  BY DEF Resolve, At
<1>2. Top \in Frame /\ Top.file \in Files  BY <1>1, TopSound
<1>3. /\ t \in Frame /\ t.file = Top.file /\ t.step = "imports"
      /\ t.imports = ImportsOf[Top.file]
  BY <1>2, FilesAssumption DEF Frame, Steps
<1> HIDE DEF t
<1>4. UNCHANGED <<hints, functions, loaded, byPath>>
  BY DEF Resolve, kept, called
<1>5. Sound(t, hints', functions')  BY <1>3 DEF Sound
<1>6. Grows  BY <1>4 DEF Grows
<1>7. QED  BY <1>1, <1>3, <1>4, <1>5, <1>6, FrameKeeps

LEMMA ImportLoads ==
  ASSUME TypeOK, LoadInv, Import
  PROVE  LoadInv'
<1>1. PICK f \in Top.imports \ loaded : Push(f)  BY DEF Import
<1>2. stack # <<>>  BY DEF Import, At
<1>3. Top \in Frame /\ Sound(Top, hints, functions)  BY <1>2, TopSound
<1>4. f \in Files /\ f \in ImportsOf[Top.file] \ loaded
  BY <1>1, <1>3 DEF Frame, Sound
<1>5. UNCHANGED <<hints, functions, loaded, byPath>>
  BY DEF Import, kept, called
<1>6. QED  BY <1>1, <1>4, <1>5, PushKeeps

(* A loaded file has a program, so its structs become hints.               *)
LEMMA ImportedLoads ==
  ASSUME TypeOK, LoadInv, Imported
  PROVE  LoadInv'
<1>1. stack # <<>> /\ Top.step = "imports"  BY DEF Imported, At
<1>2. PICK g \in Top.imports \cap loaded :
        /\ Becomes([Top EXCEPT !.imports = @ \ {g}])
        /\ hints' = IF byPath[g] = None THEN hints
                    ELSE hints \cup BareAndOwn(g, StructsOf[g])
  BY DEF Imported
<1>3. Top \in Frame /\ Top.file \in Files /\ Sound(Top, hints, functions)
  BY <1>1, TopSound
<1> DEFINE t == [Top EXCEPT !.imports = @ \ {g}]
<1>4. /\ t \in Frame /\ t.file = Top.file /\ t.step = "imports"
      /\ t.imports = Top.imports \ {g}
  BY <1>1, <1>3 DEF Frame
<1>5. Becomes(t)  BY <1>2
<1> HIDE DEF t
<1>6. UNCHANGED <<functions, loaded, byPath>>
  BY DEF Imported, kept, called
<1>7. byPath[g] # None  BY <1>2 DEF LoadInv, Complete
<1>8. hints' = hints \cup BareAndOwn(g, StructsOf[g])  BY <1>2, <1>7
<1>9. Grows  BY <1>6, <1>8 DEF Grows
<1>10. Sound(t, hints', functions')
  BY <1>1, <1>3, <1>4, <1>8 DEF Sound, Hinted
<1>11. QED  BY <1>1, <1>4, <1>5, <1>6, <1>9, <1>10, FrameKeeps

LEMMA ParseLoads ==
  ASSUME TypeOK, LoadInv, Parse
  PROVE  LoadInv'
<1> DEFINE t == [Top EXCEPT !.step = "wrappers",
                            !.wrappers = WrappersOf[Top.file],
                            !.serial = parsed + 1]
<1>1. /\ stack # <<>> /\ Top.step = "imports" /\ Top.imports = {}
      /\ Becomes(t) /\ parsed + 1 \in 0..MaxPrograms
  BY BoundsAssumption DEF Parse, At, TypeOK
<1>2. Top \in Frame /\ Top.file \in Files /\ Sound(Top, hints, functions)
  BY <1>1, TopSound
<1>3. /\ t \in Frame /\ t.file = Top.file /\ t.step = "wrappers"
      /\ t.imports = {} /\ t.wrappers = WrappersOf[t.file]
  <2>1. "wrappers" \in Steps  BY DEF Steps
  <2>2. WrappersOf[Top.file] \subseteq UNION {WrappersOf[g] : g \in Files}
    BY <1>2
  <2>3. QED  BY <1>1, <1>2, <2>1, <2>2 DEF Frame
<1> HIDE DEF t
<1>4. UNCHANGED <<hints, functions, loaded, byPath>>
  BY DEF Parse, kept, called
<1>5. Sound(t, hints', functions')
  BY <1>1, <1>2, <1>3, <1>4 DEF Sound, Wrapped
<1>6. Grows  BY <1>4 DEF Grows
<1>7. QED  BY <1>1, <1>3, <1>4, <1>5, <1>6, FrameKeeps

LEMMA ProcessLoads ==
  ASSUME IInv, LoadInv, ProcessFFImport
  PROVE  LoadInv'
<1> DEFINE f == Top.file
           d == [kind |-> "extern",
                 program |-> [file |-> Top.file, serial |-> Top.serial]]
           found(w) == {Bare} \X (ExternOf[f] \cap ExportsOf[w])
<1>t. TypeOK  BY DEF IInv
<1>1. At("wrappers") /\ stack # <<>> /\ Top.step = "wrappers"
  BY DEF ProcessFFImport, At
<1>2. d \in Definition  BY <1>1, WrapperFacts DEF Definition
<1>3. PICK w \in Top.wrappers :
        /\ functions' = Assign(functions, found(w), d)
        /\ Becomes([Top EXCEPT !.wrappers = @ \ {w}])
  BY DEF ProcessFFImport
<1> HIDE DEF d
<1>4. Top \in Frame /\ f \in Files /\ Sound(Top, hints, functions)
  BY <1>t, <1>1, TopSound
<1> DEFINE t == [Top EXCEPT !.wrappers = @ \ {w}]
<1>5. /\ t \in Frame /\ t.file = f /\ t.step = "wrappers"
      /\ t.imports = Top.imports /\ t.wrappers = Top.wrappers \ {w}
  BY <1>1, <1>4 DEF Frame
<1>6. Becomes(t)  BY <1>3
<1> HIDE DEF t
<1>7. UNCHANGED <<hints, loaded, byPath>>
  BY DEF ProcessFFImport, kept
<1>8. Grows  BY <1>t, <1>2, <1>3, <1>7, AssignGrows
<1>9. Sound(Top, hints', functions')
  BY <1>4, <1>8, GrowthKeeps
<1>10. \A s \in ExternOf[f] \cap ExportsOf[w] : functions'[<<Bare, s>>] # None
  <2>1. ASSUME NEW s \in ExternOf[f] \cap ExportsOf[w]
        PROVE  functions'[<<Bare, s>>] # None
    <3>1. <<Bare, s>> \in Names /\ <<Bare, s>> \in found(w)
      BY <1>4, FilesAssumption, BareNames
    <3>2. functions'[<<Bare, s>>] = d
      BY <1>t, <1>3, <3>1, AssignAt DEF TypeOK
    <3>3. QED  BY <1>2, <3>2, NoneAssumption
  <2>2. QED  BY <2>1
<1>11. Sound(t, hints', functions')
  BY <1>1, <1>5, <1>9, <1>10 DEF Sound, Wrapped
<1>12. QED
  BY <1>t, <1>1, <1>5, <1>6, <1>7, <1>8, <1>11, FrameKeeps

(* The load that ends is of no file that is being loaded further out, for  *)
(* that one waits for an import, and this one has loaded them all.         *)
LEMMA RegisterLoads ==
  ASSUME IInv, LoadInv, Register
  PROVE  LoadInv'
<1> DEFINE f == Top.file
           p == [file |-> Top.file, serial |-> Top.serial]
           a == [kind |-> "autotuner", program |-> p]
           i == [kind |-> "inline", program |-> p]
<1>t. TypeOK  BY DEF IInv
<1>1. /\ At("wrappers") /\ stack # <<>> /\ Top.step = "wrappers"
      /\ Top.wrappers = {} /\ Pop /\ UNCHANGED hints
      /\ loaded' = loaded \cup {f} /\ byPath' = [byPath EXCEPT ![f] = p]
      /\ functions' =
           Assign(Assign(functions, BareAndOwn(f, AutotunersOf[f]), a),
                  BareAndOwn(f, InlineOf[f]), i)
  BY DEF Register, At, Keep, Definitions
<1>2. p \in Program /\ ImportsOf[f] \subseteq loaded
  BY <1>1, WrapperFacts
<1>3. a \in Definition /\ i \in Definition  BY <1>2 DEF Definition
<1>4. f \in Files /\ Sound(Top, hints, functions)  BY <1>t, <1>1, TopSound
<1>5. p # None /\ p.file = f  BY <1>2, NoneAssumption
<1> HIDE DEF p, a, i
<1>6. Grows
  <2> DEFINE mid == Assign(functions, BareAndOwn(f, AutotunersOf[f]), a)
  <2>1. mid \in [Names -> Definition \cup {None}]
    BY <1>t, <1>3, TableFacts DEF TypeOK
  <2>2. \A n \in Names : functions[n] # None => mid[n] # None
    BY <1>t, <1>3, AssignAt, NoneAssumption DEF TypeOK
  <2>3. functions' = Assign(mid, BareAndOwn(f, InlineOf[f]), i)  BY <1>1
  <2> HIDE DEF mid
  <2>4. \A n \in Names : mid[n] # None => functions'[n] # None
    BY <1>3, <2>1, <2>3, AssignAt, NoneAssumption
  <2>5. QED  BY <1>1, <2>2, <2>4, BareNames DEF Grows
<1>7. /\ Depth' = Depth - 1 /\ Depth \in Nat
      /\ \A k \in 1..Depth - 1 : stack'[k] = stack[k] /\ stack[k] \in Frame
  <2>1. \A k \in 1..Depth - 1 : stack[k] \in Frame
    BY <1>t, <1>1, TopFacts, ElementOfSeq DEF TypeOK, Depth
  <2>2. QED  BY <1>t, <1>1, <2>1, PopFacts, TopFacts
<1>8. \A k \in 1..Depth - 1 : Sound(stack'[k], hints', functions')
  <2>1. \A k \in 1..Depth - 1 : k \in 1..Depth  BY <1>7
  <2>2. QED  BY <1>6, <1>7, <2>1, GrowthKeeps DEF LoadInv
<1>9. \A k \in 1..Depth - 2 :
        stack'[k + 1].file \in ImportsOf[stack'[k].file] \ loaded'
  <2>1. ASSUME NEW k \in 1..Depth - 2
        PROVE  stack'[k + 1].file \in ImportsOf[stack'[k].file] \ loaded'
    <3>1. k \in 1..Depth - 1 /\ k + 1 \in 1..Depth - 1
      BY <1>7
    <3>2. /\ stack[k + 1].file \in ImportsOf[stack[k].file] \ loaded
          /\ stack[k + 1 + 1].file \in ImportsOf[stack[k + 1].file] \ loaded
      BY <3>1 DEF LoadInv
    <3>3. stack[k + 1].file # f  BY <1>2, <3>2
    <3>4. QED  BY <1>1, <1>7, <3>1, <3>2, <3>3
  <2>2. QED  BY <2>1
<1>10. Complete(f, hints', functions', byPath')
  <2>1. byPath'[f] = p  BY <1>t, <1>1, <1>4 DEF TypeOK
  <2>2. Sound(Top, hints', functions')
    BY <1>t, <1>1, <1>4, <1>6, TopSound, GrowthKeeps
  <2>3. QED  BY <1>1, <1>5, <2>1, <2>2 DEF Sound, Complete
<1>11. \A g \in loaded \ {f} : Complete(g, hints', functions', byPath')
  <2>1. \A g \in loaded : Complete(g, hints', functions', byPath)
    BY <1>t, <1>6, GrowthKeeps DEF LoadInv, TypeOK
  <2>2. \A g \in loaded \ {f} : byPath'[g] = byPath[g]
    BY <1>t, <1>1 DEF TypeOK
  <2>3. QED  BY <2>1, <2>2 DEF Complete
<1>12. Depth' - 1 = Depth - 2  BY <1>7
<1>13. QED  BY <1>1, <1>7, <1>8, <1>9, <1>10, <1>11, <1>12 DEF LoadInv

LEMMA LibraryLoads ==
  ASSUME TypeOK, LoadInv, NEW n \in Names, LoadRoutineLibrary(n)
  PROVE  LoadInv'
<1> DEFINE d == [kind |-> "extern", program |-> routines[n]]
<1>1. /\ functions' = Assign(functions, {n}, d)
      /\ UNCHANGED <<stack, hints, loaded, byPath>> /\ stack = <<>>
  BY DEF LoadRoutineLibrary, kept
<1>2. d \in Definition  BY DEF TypeOK, LoadRoutineLibrary, Definition
<1>3. Grows  BY <1>1, <1>2, AssignGrows
<1>4. Depth' = 0  BY <1>1, EmptySeq DEF Depth
<1>5. \A f \in loaded' : Complete(f, hints', functions', byPath')
  BY <1>1, <1>3, LoadedAreComplete
<1>6. QED  BY <1>4, <1>5 DEF LoadInv

LEMMA InitLoadInv == Init => LoadInv
BY EmptySeq DEF Init, LoadInv, Depth

LEMMA NextLoadInv == IInv /\ LoadInv /\ [Next]_vars => LoadInv'
<1> SUFFICES ASSUME IInv, LoadInv, [Next]_vars PROVE LoadInv'
  OBVIOUS
<1>t. TypeOK  BY DEF IInv
<1>1. ASSUME NEW f \in Files, Load(f) PROVE LoadInv'
  BY <1>t, <1>1, PushKeeps DEF Load, kept, called
<1>2. CASE Fail  BY <1>2, NoFrames DEF Fail, kept, called
<1>3. CASE HostIsDone \/ UNCHANGED vars
  BY <1>3 DEF HostIsDone, vars, kept, called, LoadInv, Depth
<1>4. QED
  BY <1>t, <1>1, <1>2, <1>3, ResolveLoads, ImportLoads, ImportedLoads,
     ParseLoads, ProcessLoads, RegisterLoads, LibraryLoads
  DEF Next, Loading

LEMMA LoadInvariance == Spec => [](IInv /\ LoadInv)
BY InitIInv, NextIInv, InitLoadInv, NextLoadInv, PTL DEF Spec

(* A file is parsed for an import only while it is not loaded: a diamond   *)
(* of imports parses its base once.                                        *)
THEOREM ParsedOnceForImports == Spec => ImportsAreLoadedOnce
<1>1. IInv /\ LoadInv /\ [Next]_vars =>
        [parsed' # parsed /\ Depth > 1 => Top.file \notin loaded]_vars
  <2> SUFFICES ASSUME IInv, LoadInv, Next, Depth > 1, parsed' # parsed
               PROVE  Top.file \notin loaded
    OBVIOUS
  <2>1. Depth \in Nat  BY LenProperties DEF IInv, TypeOK, Depth
  <2>2. Depth - 1 \in 1..Depth - 1 /\ (Depth - 1) + 1 = Depth  BY <2>1
  <2>3. QED  BY <2>2 DEF LoadInv, Top
<1>2. QED
  BY <1>1, InitIInv, NextIInv, InitLoadInv, NextLoadInv, PTL
  DEF Spec, ImportsAreLoadedOnce

(* When a file is parsed, the structs of all it imports, directly or not,  *)
(* are hints: those of the files it imports by itself, and those of their  *)
(* imports from the loads of these, which were complete.                   *)
THEOREM HintsReachParser == Spec => []ParsedWithHints
<1>1. IInv /\ LoadInv => ParsedWithHints
  <2> SUFFICES ASSUME IInv, LoadInv, At("imports"), Top.imports = {},
                      NEW g \in Reachable(Top.file)
               PROVE  BareAndOwn(g, StructsOf[g]) \subseteq hints
    BY DEF ParsedWithHints
  <2> DEFINE S == {h \in loaded : Hinted(h, hints)}
  <2>1. stack # <<>> /\ Top.step = "imports"  BY DEF At
  <2>2. Sound(Top, hints, functions)  BY <2>1, TopSound DEF IInv
  <2>3. InOrder(Top)
    BY <2>1, TopFacts DEF IInv, FramesInOrder, Top
  <2>4. ImportsOf[Top.file] \subseteq S
    BY <2>1, <2>2, <2>3 DEF Sound, InOrder
  <2>5. \A h \in S : ImportsOf[h] \subseteq S
    BY DEF IInv, ImportsComeFirst, LoadInv, Complete
  <2>6. S \in SUBSET Files  BY DEF IInv, TypeOK
  <2>7. g \in S  BY <2>4, <2>5, <2>6 DEF Reachable
  <2>8. QED  BY <2>7 DEF Hinted
<1>2. QED  BY <1>1, LoadInvariance, PTL

-----------------------------------------------------------------------------
(* What the tables hold, when no two files have the same stem.             *)
ModulesDiffer == \A f, g \in Files : ModuleOf[f] = ModuleOf[g] => f = g

(* A function is registered under a name of the file it was declared in.   *)
(* An autotuner or an inline routine of the function table is one of a     *)
(* loaded file; what a library put in its place is the latest program.     *)
Placed(n, d, ld, bp) ==
  LET g == d.program.file
      s == n[2] IN
  d # None =>
    /\ n[1] \in {Bare, ModuleOf[g]}
    /\ s \in UNION {AutotunersOf[g], InlineOf[g], ExternOf[g]}
    /\ d.kind = "autotuner" => g \in ld /\ s \in AutotunersOf[g]
    /\ d.kind = "inline" => g \in ld /\ s \in InlineOf[g]
    /\ n[1] = ModuleOf[g] => g \in ld
    /\ d.kind = "extern" /\ n[1] = ModuleOf[g]
         /\ s \in AutotunersOf[g] \cup InlineOf[g] => d.program = bp[g]

(* The rows of one file are those of its newest program.                   *)
Rows(f, bp, at, rt, fn) ==
  /\ \A s \in AutotunersOf[f] \cup InlineOf[f] : fn[<<ModuleOf[f], s>>] # None
  /\ \A s \in AutotunersOf[f] : at[<<ModuleOf[f], s>>] = bp[f]
  /\ \A s \in InlineOf[f] \cup ExternOf[f] : rt[<<ModuleOf[f], s>>] = bp[f]

\* Only what a loaded file declares can be implemented by a library.
Declared(n, ld) ==
  \E f \in ld : n[1] = ModuleOf[f] /\ n[2] \in InlineOf[f] \cup ExternOf[f]

TablesInv ==
  /\ \A n \in Names : Placed(n, functions[n], loaded, byPath)
  /\ \A f \in loaded : Rows(f, byPath, autotuners, routines, functions)
  /\ \A n \in Names : routines[n] # None => Declared(n, loaded)

LEMMA NameFacts ==
  ASSUME NEW f \in Files, NEW S \in SUBSET Symbols
  PROVE  /\ \A n \in Names : /\ n = <<n[1], n[2]>> /\ n[2] \in Symbols
                             /\ n \in Own(f, S) <=>
                                  n[1] = ModuleOf[f] /\ n[2] \in S
                             /\ n \in BareAndOwn(f, S) <=>
                                  n[1] \in {Bare, ModuleOf[f]} /\ n[2] \in S
         /\ \A s \in Symbols : <<ModuleOf[f], s>> \in Names
BY DEF Names, Modules, Own, BareAndOwn

LEMMA SymbolFacts ==
  ASSUME NEW f \in Files
  PROVE  /\ AutotunersOf[f] \in SUBSET Symbols
         /\ InlineOf[f] \in SUBSET Symbols
         /\ ExternOf[f] \in SUBSET Symbols
         /\ InlineOf[f] \cup ExternOf[f] \in SUBSET Symbols
BY FilesAssumption

(* A wrapper gives bare names to routines the file declares.               *)
LEMMA ProcessTables ==
  ASSUME IInv, TablesInv, ProcessFFImport
  PROVE  TablesInv'
<1> DEFINE f == Top.file
           d == [kind |-> "extern",
                 program |-> [file |-> Top.file, serial |-> Top.serial]]
           found(w) == {Bare} \X (ExternOf[f] \cap ExportsOf[w])
<1>t. TypeOK  BY DEF IInv
<1>1. At("wrappers") /\ UNCHANGED <<loaded, byPath, autotuners, routines>>
  BY DEF ProcessFFImport, kept
<1>2. f \in Files /\ d \in Definition
  BY <1>1, WrapperFacts DEF Definition, Program
<1>3. PICK w \in Top.wrappers : functions' = Assign(functions, found(w), d)
  BY DEF ProcessFFImport
<1>4. d.kind = "extern" /\ d.program.file = f  OBVIOUS
<1> HIDE DEF d, f
<1>5. \A n \in Names :
        functions'[n] = IF n \in found(w) THEN d ELSE functions[n]
  BY <1>t, <1>3, AssignAt DEF TypeOK
<1>6. \A n \in Names : n \in found(w) => n[1] = Bare /\ n[2] \in ExternOf[f]
  OBVIOUS
<1>7. \A n \in Names : Placed(n, functions'[n], loaded, byPath)
  BY <1>2, <1>4, <1>5, <1>6, BareAssumption DEF Placed, TablesInv
<1>8. ASSUME NEW g \in loaded
      PROVE  Rows(g, byPath, autotuners, routines, functions')
  <2>1. g \in Files  BY <1>t DEF TypeOK
  <2>2. \A s \in AutotunersOf[g] \cup InlineOf[g] :
          /\ <<ModuleOf[g], s>> \in Names
          /\ <<ModuleOf[g], s>> \notin found(w)
    BY <2>1, NameFacts, SymbolFacts, BareAssumption
  <2>3. Rows(g, byPath, autotuners, routines, functions)  BY DEF TablesInv
  <2>4. QED  BY <1>5, <2>2, <2>3 DEF Rows
<1>9. QED  BY <1>1, <1>7, <1>8 DEF TablesInv

(* A library implements what a loaded file declares, as its newest program *)
(* does.                                                                   *)
LEMMA LibraryTables ==
  ASSUME TypeOK, LoadInv, TablesInv, NEW n \in Names, LoadRoutineLibrary(n)
  PROVE  TablesInv'
<1> DEFINE d == [kind |-> "extern", program |-> routines[n]]
<1>1. /\ functions' = Assign(functions, {n}, d) /\ routines[n] # None
      /\ UNCHANGED <<loaded, byPath, autotuners, routines>>
  BY DEF LoadRoutineLibrary, kept
<1>2. d \in Definition  BY DEF TypeOK, LoadRoutineLibrary, Definition
<1>3. d.kind = "extern" /\ d.program = routines[n]  OBVIOUS
<1> HIDE DEF d
<1>4. \A m \in Names : functions'[m] = IF m = n THEN d ELSE functions[m]
  BY <1>1, AssignAt DEF TypeOK
<1>5. PICK f \in loaded :
        n[1] = ModuleOf[f] /\ n[2] \in InlineOf[f] \cup ExternOf[f]
  BY <1>1 DEF TablesInv, Declared
<1>6. routines[n] = byPath[f]
  <2>1. n = <<ModuleOf[f], n[2]>>  BY <1>5 DEF Names
  <2>2. QED  BY <1>5, <2>1 DEF TablesInv, Rows
<1>7. d.program.file = f  BY <1>3, <1>6 DEF LoadInv, Complete
<1>8. Placed(n, d, loaded, byPath)
  BY <1>3, <1>5, <1>6, <1>7 DEF Placed
<1>9. \A m \in Names : Placed(m, functions'[m], loaded, byPath)
  BY <1>4, <1>8 DEF TablesInv
<1>10. ASSUME NEW g \in loaded
       PROVE  Rows(g, byPath, autotuners, routines, functions')
  <2>1. g \in Files  BY DEF TypeOK
  <2>2. \A s \in AutotunersOf[g] \cup InlineOf[g] :
          <<ModuleOf[g], s>> \in Names
    BY <2>1, NameFacts, SymbolFacts
  <2>3. Rows(g, byPath, autotuners, routines, functions)  BY DEF TablesInv
  <2>4. QED  BY <1>2, <1>4, <2>2, <2>3, NoneAssumption DEF Rows
<1>11. QED  BY <1>1, <1>9, <1>10 DEF TablesInv

(* A load replaces the rows of its file and leaves those of all others,    *)
(* which have another module.                                              *)
LEMMA RegisterTables ==
  ASSUME ModulesDiffer, IInv, TablesInv, Register
  PROVE  TablesInv'
<1> DEFINE f == Top.file
           p == [file |-> Top.file, serial |-> Top.serial]
           a == [kind |-> "autotuner", program |-> p]
           i == [kind |-> "inline", program |-> p]
           A == AutotunersOf[f]
           I == InlineOf[f]
           R == InlineOf[f] \cup ExternOf[f]
<1>t. TypeOK  BY DEF IInv
<1>1. /\ At("wrappers")
      /\ loaded' = loaded \cup {f} /\ byPath' = [byPath EXCEPT ![f] = p]
      /\ functions' = Assign(Assign(functions, BareAndOwn(f, A), a),
                             BareAndOwn(f, I), i)
      /\ autotuners' = Assign(autotuners, Own(f, A), p)
      /\ routines' = Assign(routines, Own(f, R), p)
  BY DEF Register, Keep, Definitions
<1>l. loaded' = loaded \cup {f}  BY <1>1
<1>2. p \in Program /\ f \in Files  BY <1>1, WrapperFacts DEF Program
<1>3. /\ a \in Definition /\ a.kind = "autotuner" /\ a.program = p
      /\ i \in Definition /\ i.kind = "inline" /\ i.program = p
      /\ p.file = f
  BY <1>2 DEF Definition
<1>4. a # None /\ i # None  BY <1>3, NoneAssumption
<1>5. /\ A \in SUBSET Symbols /\ I \in SUBSET Symbols /\ R \in SUBSET Symbols
      /\ I \subseteq R
  BY <1>2, SymbolFacts
<1> HIDE DEF p, a, i
<1>6. \A n \in Names :
        functions'[n] = IF n \in BareAndOwn(f, I) THEN i
                        ELSE IF n \in BareAndOwn(f, A) THEN a ELSE functions[n]
  <2> DEFINE mid == Assign(functions, BareAndOwn(f, A), a)
  <2>1. /\ DOMAIN mid = Names
        /\ \A n \in Names :
             mid[n] = IF n \in BareAndOwn(f, A) THEN a ELSE functions[n]
    BY <1>t, AssignAt DEF TypeOK, Assign
  <2>2. functions' = Assign(mid, BareAndOwn(f, I), i)  BY <1>1
  <2> HIDE DEF mid
  <2>3. QED  BY <2>1, <2>2, AssignAt
<1>7. \A n \in Names :
        /\ autotuners'[n] = IF n \in Own(f, A) THEN p ELSE autotuners[n]
        /\ routines'[n] = IF n \in Own(f, R) THEN p ELSE routines[n]
  BY <1>t, <1>1, AssignAt DEF TypeOK
<1>8. /\ byPath'[f] = p
      /\ \A g \in loaded \ {f} : byPath'[g] = byPath[g]
  BY <1>t, <1>1, <1>2 DEF TypeOK
<1>9. \A n \in Names :
        /\ n \in Own(f, A) <=> n[1] = ModuleOf[f] /\ n[2] \in A
        /\ n \in Own(f, R) <=> n[1] = ModuleOf[f] /\ n[2] \in R
        /\ n \in BareAndOwn(f, A) <=>
             n[1] \in {Bare, ModuleOf[f]} /\ n[2] \in A
        /\ n \in BareAndOwn(f, I) <=>
             n[1] \in {Bare, ModuleOf[f]} /\ n[2] \in I
  BY <1>2, <1>5, NameFacts
<1>10. A = AutotunersOf[f] /\ I = InlineOf[f]
       /\ R = InlineOf[f] \cup ExternOf[f]
  OBVIOUS
<1> HIDE DEF A, I, R, f
<1>11. ASSUME NEW n \in Names PROVE Placed(n, functions'[n], loaded', byPath')
  <2>1. CASE n \in BareAndOwn(f, I)
    <3>1. functions'[n] = i  BY <1>6, <2>1
    <3>2. n[1] \in {Bare, ModuleOf[f]} /\ n[2] \in I  BY <1>9, <2>1
    <3>3. QED  BY <1>l, <1>3, <1>10, <3>1, <3>2 DEF Placed
  <2>2. CASE n \notin BareAndOwn(f, I) /\ n \in BareAndOwn(f, A)
    <3>1. functions'[n] = a  BY <1>6, <2>2
    <3>2. n[1] \in {Bare, ModuleOf[f]} /\ n[2] \in A  BY <1>9, <2>2
    <3>3. QED  BY <1>l, <1>3, <1>10, <3>1, <3>2 DEF Placed
  <2>3. CASE n \notin BareAndOwn(f, I) /\ n \notin BareAndOwn(f, A)
    <3>1. functions'[n] = functions[n]  BY <1>6, <2>3
    <3>2. Placed(n, functions[n], loaded, byPath)  BY DEF TablesInv
    <3>3. ~(n[1] = ModuleOf[f] /\ n[2] \in A \cup I)  BY <1>9, <2>3
    <3>4. QED  BY <1>l, <1>8, <1>10, <3>1, <3>2, <3>3 DEF Placed
  <2>4. QED  BY <2>1, <2>2, <2>3
<1>12. Rows(f, byPath', autotuners', routines', functions')
  <2>1. \A s \in Symbols : <<ModuleOf[f], s>> \in Names  BY <1>2, NameFacts
  <2>2. \A s \in A \cup I : functions'[<<ModuleOf[f], s>>] # None
    BY <1>4, <1>5, <1>6, <1>9, <2>1
  <2>3. \A s \in A : autotuners'[<<ModuleOf[f], s>>] = p
    BY <1>5, <1>7, <1>9, <2>1
  <2>4. \A s \in R : routines'[<<ModuleOf[f], s>>] = p
    BY <1>5, <1>7, <1>9, <2>1
  <2>5. QED  BY <1>8, <1>10, <2>2, <2>3, <2>4 DEF Rows
<1>13. ASSUME NEW g \in loaded \ {f}
       PROVE  Rows(g, byPath', autotuners', routines', functions')
  <2>1. g \in Files /\ ModuleOf[g] \notin {Bare, ModuleOf[f]}
    BY <1>t, <1>2, BareAssumption DEF TypeOK, ModulesDiffer
  <2>2. ASSUME NEW s \in Symbols
        PROVE  LET n == <<ModuleOf[g], s>> IN
               /\ functions'[n] = functions[n]
               /\ autotuners'[n] = autotuners[n] /\ routines'[n] = routines[n]
    <3>1. <<ModuleOf[g], s>> \in Names  BY <2>1, NameFacts
    <3>2. QED  BY <1>6, <1>7, <1>9, <2>1, <3>1
  <2>3. Rows(g, byPath, autotuners, routines, functions)  BY DEF TablesInv
  <2>4. /\ AutotunersOf[g] \in SUBSET Symbols
        /\ InlineOf[g] \in SUBSET Symbols /\ ExternOf[g] \in SUBSET Symbols
    BY <2>1, SymbolFacts
  <2>5. QED  BY <1>8, <2>2, <2>3, <2>4 DEF Rows
<1>14. ASSUME NEW n \in Names, routines'[n] # None PROVE Declared(n, loaded')
  <2>1. CASE n \in Own(f, R)  BY <1>l, <1>9, <1>10, <2>1 DEF Declared
  <2>2. CASE n \notin Own(f, R)
    <3>1. Declared(n, loaded)  BY <1>7, <1>14, <2>2 DEF TablesInv
    <3>2. QED  BY <1>l, <3>1 DEF Declared
  <2>3. QED  BY <2>1, <2>2
<1>15. QED  BY <1>l, <1>11, <1>12, <1>13, <1>14 DEF TablesInv

LEMMA InitTables == Init => TablesInv
BY DEF Init, TablesInv, Placed

LEMMA NextTables ==
  ASSUME ModulesDiffer
  PROVE  IInv /\ LoadInv /\ TablesInv /\ [Next]_vars => TablesInv'
<1> SUFFICES ASSUME IInv, LoadInv, TablesInv, [Next]_vars PROVE TablesInv'
  OBVIOUS
<1>1. CASE UNCHANGED <<functions, loaded, byPath, autotuners, routines>>
  BY <1>1 DEF TablesInv
<1>2. ASSUME NEW f \in Files, Load(f) PROVE TablesInv'
  BY <1>1, <1>2 DEF Load, kept, called
<1>3. ASSUME Resolve \/ Import \/ Imported \/ Parse \/ Fail PROVE TablesInv'
  BY <1>1, <1>3 DEF Resolve, Import, Imported, Parse, Fail, kept, called
<1>4. CASE HostIsDone \/ UNCHANGED vars
  BY <1>1, <1>4 DEF HostIsDone, vars, kept, called
<1>5. ASSUME NEW n \in Names, LoadRoutineLibrary(n) PROVE TablesInv'
  BY <1>5, LibraryTables DEF IInv
<1>6. QED
  BY <1>2, <1>3, <1>4, <1>5, ProcessTables, RegisterTables DEF Next, Loading

LEMMA TablesInvariance ==
  ASSUME ModulesDiffer
  PROVE  Spec => [](IInv /\ LoadInv /\ TablesInv)
BY InitIInv, NextIInv, InitLoadInv, NextLoadInv, InitTables, NextTables, PTL
DEF Spec

(* A function reached under a name n runs a program of the file that       *)
(* declares it, and an autotuner or a routine with a body the newest one.  *)
LEMMA ExecutesFacts ==
  ASSUME IInv, LoadInv, TablesInv, NEW n \in Names, functions[n] # None
  PROVE  LET g == functions[n].program.file IN
         /\ g \in Files
         /\ n[1] \in {Bare, ModuleOf[g]}
         /\ n[2] \in UNION {AutotunersOf[g], InlineOf[g], ExternOf[g]}
         /\ Executes(n).file = g
         /\ n[1] = ModuleOf[g] /\ n[2] \in AutotunersOf[g] \cup InlineOf[g] =>
              Executes(n) = byPath[g]
<1> DEFINE d == functions[n]
           g == d.program.file
           q == <<ModuleOf[g], n[2]>>
<1>1. d \in Definition /\ g \in Files
  BY DEF IInv, TypeOK, Definition, Program
<1>2. Placed(n, d, loaded, byPath)  BY DEF TablesInv
<1>3. d.kind \in {"autotuner", "inline", "extern"}  BY <1>1 DEF Definition
<1>4. Executes(n) = CASE d.kind = "autotuner" -> autotuners[q]
                      [] d.kind = "inline" -> routines[q]
                      [] OTHER -> d.program
  BY DEF Executes
<1>5. d # None  OBVIOUS
<1> HIDE DEF d
<1>6. CASE d.kind = "autotuner"
  <2>1. Executes(n) = autotuners[q]  BY <1>4, <1>6
  <2>2. g \in loaded /\ n[2] \in AutotunersOf[g]
    BY <1>2, <1>5, <1>6 DEF Placed
  <2>3. autotuners[q] = byPath[g]  BY <2>2 DEF TablesInv, Rows
  <2>4. byPath[g].file = g  BY <2>2 DEF LoadInv, Complete
  <2>5. QED  BY <1>1, <1>2, <1>5, <2>1, <2>3, <2>4 DEF Placed, d
<1>7. CASE d.kind = "inline"
  <2>1. Executes(n) = routines[q]  BY <1>4, <1>7
  <2>2. g \in loaded /\ n[2] \in InlineOf[g]
    BY <1>2, <1>5, <1>7 DEF Placed
  <2>3. routines[q] = byPath[g]  BY <2>2 DEF TablesInv, Rows
  <2>4. byPath[g].file = g  BY <2>2 DEF LoadInv, Complete
  <2>5. QED  BY <1>1, <1>2, <1>5, <2>1, <2>3, <2>4 DEF Placed, d
<1>8. CASE d.kind = "extern"
  <2>1. Executes(n) = d.program  BY <1>4, <1>8
  <2>2. QED  BY <1>1, <1>2, <1>5, <1>8, <2>1 DEF Placed, d
<1>9. QED  BY <1>3, <1>6, <1>7, <1>8

(* A qualified call of what a loaded file declares runs the newest program *)
(* of the file, through reloads, failures and libraries, if no two files   *)
(* have the same stem.                                                     *)
THEOREM QualifiedAreNewest ==
  ASSUME ModulesDiffer
  PROVE  Spec => []QualifiedReachesNewest
<1>1. IInv /\ LoadInv /\ TablesInv => QualifiedReachesNewest
  <2> SUFFICES ASSUME IInv, LoadInv, TablesInv, NEW f \in loaded,
                      NEW s \in AutotunersOf[f] \cup InlineOf[f]
               PROVE  Executes(<<ModuleOf[f], s>>) = byPath[f]
    BY DEF QualifiedReachesNewest
  <2> DEFINE n == <<ModuleOf[f], s>>
             g == functions[n].program.file
  <2>1. f \in Files /\ ModuleOf[f] # Bare
    BY BareAssumption DEF IInv, TypeOK
  <2>2. n \in Names  BY <2>1, NameFacts, SymbolFacts
  <2>3. functions[n] # None  BY DEF TablesInv, Rows
  <2>4. n[1] = ModuleOf[f] /\ n[2] = s  OBVIOUS
  <2> HIDE DEF n
  <2>5. g \in Files /\ n[1] \in {Bare, ModuleOf[g]}
    BY <2>2, <2>3, ExecutesFacts
  <2>6. g = f  BY <2>1, <2>4, <2>5 DEF ModulesDiffer
  <2>7. Executes(n) = byPath[f]
    BY <2>2, <2>3, <2>4, <2>6, ExecutesFacts
  <2>8. QED  BY <2>7 DEF n
<1>2. QED  BY <1>1, TablesInvariance, PTL

(* A call of an extern routine that one file declares reaches that file,   *)
(* whatever other wrappers export, if no two files have the same stem.     *)
THEOREM ExternCallsAreOwn ==
  ASSUME ModulesDiffer
  PROVE  Spec => []ExternCallsReachModule
<1>1. IInv /\ LoadInv /\ TablesInv => ExternCallsReachModule
  <2> SUFFICES ASSUME IInv, LoadInv, TablesInv,
                      NEW f \in loaded, NEW s \in Symbols,
                      OnlyDeclaredBy(f, s),
                      NEW w \in WrappersOf[f],
                      s \in ExternOf[f] \cap ExportsOf[w]
               PROVE  Executes(Resolved(<<ModuleOf[f], s>>)).file = f
    BY DEF ExternCallsReachModule
  <2> DEFINE n == Resolved(<<ModuleOf[f], s>>)
             g == functions[n].program.file
  <2>1. f \in Files  BY DEF IInv, TypeOK
  <2>2. functions[<<Bare, s>>] # None  BY DEF LoadInv, Complete, Wrapped
  <2>3. n \in Names /\ functions[n] # None /\ n[2] = s
    BY <2>1, <2>2, NameFacts, BareNames DEF Resolved
  <2> HIDE DEF n
  <2>4. /\ g \in Files
        /\ s \in UNION {AutotunersOf[g], InlineOf[g], ExternOf[g]}
        /\ Executes(n).file = g
    BY <2>3, ExecutesFacts
  <2>5. g = f  BY <2>4 DEF OnlyDeclaredBy
  <2>6. QED  BY <2>4, <2>5 DEF n
<1>2. QED  BY <1>1, TablesInvariance, PTL
=============================================================================
