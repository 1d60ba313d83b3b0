-------------------------- MODULE InterpreterProofs --------------------------
(***************************************************************************)
(* Proofs about the interpreter, for every program and every depth of      *)
(* calls.  A step is one of three: it works on the innermost run, it       *)
(* begins a run, or it ends one.                                           *)
(***************************************************************************)
EXTENDS Interpreter, SequenceTheorems, TLAPS

-----------------------------------------------------------------------------
(* Environments.                                                           *)

LEMMA EnvironmentFacts ==
  ASSUME NEW e \in Environments
  PROVE  /\ DOMAIN e \subseteq Names
         /\ e = [n \in DOMAIN e |-> e[n]]
         /\ \A n \in DOMAIN e : e[n] \in Values \cup {Unset}
BY DEF Environments

LEMMA EnvironmentIntro ==
  ASSUME NEW D \in SUBSET Names, NEW e \in [D -> Values \cup {Unset}]
  PROVE  e \in Environments
BY DEF Environments

LEMMA EmptyIsEnvironment == Empty \in Environments /\ DOMAIN Empty = {}
<1>1. Empty \in [{} -> Values \cup {Unset}]  BY DEF Empty
<1>2. QED  BY <1>1, EnvironmentIntro DEF Empty

(* A binding adds its name to the environment and takes none away.         *)
LEMMA BindFacts ==
  ASSUME variables \in Environments,
         NEW n \in Names, NEW v \in Values \cup {Unset}, Bind(n, v)
  PROVE  /\ variables' \in Environments
         /\ DOMAIN variables' = DOMAIN variables \cup {n}
<1> DEFINE D == DOMAIN variables \cup {n}
<1>1. D \in SUBSET Names  BY EnvironmentFacts
<1>2. variables' \in [D -> Values \cup {Unset}]
  BY EnvironmentFacts DEF Bind
<1>3. QED  BY <1>1, <1>2, EnvironmentIntro DEF Bind

(* Leaving a state keeps exactly the names it found.                       *)
LEMMA ForgetFacts ==
  ASSUME variables \in Environments, ForgetLocals
  PROVE  /\ variables' \in Environments
         /\ DOMAIN variables' = DOMAIN variables \cap Top.globals
<1> DEFINE D == DOMAIN variables \cap Top.globals
<1>1. D \in SUBSET Names  BY EnvironmentFacts
<1>2. variables' \in [D -> Values \cup {Unset}]
  BY EnvironmentFacts DEF ForgetLocals
<1>3. QED  BY <1>1, <1>2, EnvironmentIntro DEF ForgetLocals

-----------------------------------------------------------------------------
(* The three kinds of steps.                                               *)

LocalAction ==
  \/ Initialize \/ Initialized \/ SetInput \/ InputsSet \/ SetOutput \/ Start
  \/ Enter \/ BindParam \/ Assign \/ Transition \/ Terminal \/ FallThrough
  \/ Throw

LocalStep ==
  /\ Depth > 0
  /\ variables' \in Environments
  /\ saved' = saved
  /\ \E f \in Frame : frames' = [frames EXCEPT ![Depth] = f]
  /\ throwing' \in BOOLEAN

BeginStep ==
  /\ saved' = Append(saved, variables)
  /\ variables' = Empty
  /\ \E f \in Frame : f.phase = "init" /\ frames' = Append(frames, f)
  /\ Depth < MaxDepth
  /\ throwing' = throwing

EndStep ==
  /\ Depth > 0
  /\ Restore /\ Pop
  /\ throwing' \in BOOLEAN
  /\ Depth = 1 => ~throwing'

LEMMA TopIsFrame ==
  ASSUME TypeOK, frames # <<>>
  PROVE  /\ Top \in Frame
         /\ Depth \in Nat /\ Depth > 0
         /\ frames = [frames EXCEPT ![Depth] = Top]
<1>1. Depth \in Nat /\ Depth > 0 /\ Depth \in DOMAIN frames
  BY EmptySeq, LenProperties DEF TypeOK, Depth
<1>2. QED  BY <1>1, ElementOfSeq DEF TypeOK, Top, Depth

LEMMA FrameUpdates ==
  ASSUME NEW f \in Frame, NEW p \in Phases,
         NEW D \in SUBSET Names, NEW E \in SUBSET Names
  PROVE  /\ [f EXCEPT !.todo = D] \in Frame
         /\ [f EXCEPT !.phase = p] \in Frame
         /\ [f EXCEPT !.phase = p, !.todo = D] \in Frame
         /\ [f EXCEPT !.phase = p, !.globals = D] \in Frame
         /\ [f EXCEPT !.phase = p, !.todo = D, !.scope = E] \in Frame
BY DEF Frame

(* Every step that neither begins nor ends a run leaves saved alone and    *)
(* changes the innermost frame only.                                       *)
LEMMA LocalSteps ==
  ASSUME TypeOK,
         LocalAction
  PROVE  LocalStep
<1> USE DEF Phases
<1>0. Running
  BY DEF LocalAction, Initialize, Initialized, SetInput, InputsSet, SetOutput, Start, Enter,
         BindParam, Assign, Transition, Terminal, FallThrough, Throw, InBody, In
<1>1. /\ Top \in Frame
      /\ Depth > 0
      /\ frames = [frames EXCEPT ![Depth] = Top]
      /\ variables \in Environments
      /\ DOMAIN variables \in SUBSET Names
      /\ throwing \in BOOLEAN
  BY <1>0, TopIsFrame, EnvironmentFacts DEF Running, TypeOK
<1>2. /\ Top.todo \in SUBSET Names
      /\ Top.globals \in SUBSET Names
      /\ Autotuner \in Autotuners
      /\ InputsOf[Autotuner] \in SUBSET Names
      /\ OutputsOf[Autotuner] \in SUBSET Names
      /\ \A s \in StatesOf[Autotuner] : ParamsOf[s] \in SUBSET Names
  BY <1>1, ProgramAssumption DEF Frame, Autotuner
<1>3. CASE Initialize \/ Assign
  BY <1>1, <1>3, BindFacts DEF Initialize, Assign, LocalStep
<1>4. CASE SetInput \/ BindParam
  <2>1. PICK n \in Top.todo, v \in Values : Bind(n, v) /\ Settle(n)
    BY <1>4 DEF SetInput, BindParam
  <2>2. n \in Names /\ variables' \in Environments
    BY <1>1, <1>2, <2>1, BindFacts, Zenon
  <2>3. [Top EXCEPT !.todo = Top.todo \ {n}] \in Frame
    BY <1>1, <1>2, FrameUpdates, Zenon
  <2>4. QED
    BY <1>1, <1>4, <2>1, <2>2, <2>3
    DEF SetInput, BindParam, LocalStep, Settle, Becomes
<1>5. CASE SetOutput
  <2>1. PICK n \in Top.todo :
          /\ Settle(n)
          /\ IF n \in DOMAIN variables
               THEN UNCHANGED variables
               ELSE \E v \in Values \cup {Unset} : Bind(n, v)
    BY <1>5 DEF SetOutput
  <2>2. n \in Names /\ variables' \in Environments
    BY <1>1, <1>2, <2>1, BindFacts, Zenon
  <2>3. [Top EXCEPT !.todo = Top.todo \ {n}] \in Frame
    BY <1>1, <1>2, FrameUpdates, Zenon
  <2>4. QED
    BY <1>1, <1>5, <2>1, <2>2, <2>3 DEF SetOutput, LocalStep, Settle, Becomes
<1>6. CASE Initialized
  <2>1. [Top EXCEPT !.phase = "inputs", !.todo = InputsOf[Autotuner]] \in Frame
    BY <1>1, <1>2, FrameUpdates, Zenon
  <2>2. QED  BY <1>1, <1>6, <2>1, Zenon DEF Initialized, LocalStep, Becomes
<1>7. CASE InputsSet
  <2>1. [Top EXCEPT !.phase = "outputs", !.todo = OutputsOf[Autotuner]] \in Frame
    BY <1>1, <1>2, FrameUpdates, Zenon
  <2>2. QED  BY <1>1, <1>7, <2>1, Zenon DEF InputsSet, LocalStep, Becomes
<1>8. CASE Start
  <2>1. PICK s \in StatesOf[Autotuner] :
          Becomes([Top EXCEPT !.phase = "enter", !.todo = ParamsOf[s],
                              !.scope = DOMAIN variables])
    BY <1>8 DEF Start
  <2>2. [Top EXCEPT !.phase = "enter", !.todo = ParamsOf[s],
                    !.scope = DOMAIN variables] \in Frame
    BY <1>1, <1>2, FrameUpdates, Zenon
  <2>3. QED  BY <1>1, <1>8, <2>1, <2>2, Zenon DEF Start, LocalStep, Becomes
<1>9. CASE Enter
  <2>1. [Top EXCEPT !.phase = "state", !.globals = DOMAIN variables] \in Frame
    BY <1>1, FrameUpdates, Zenon
  <2>2. QED  BY <1>1, <1>9, <2>1, Zenon DEF Enter, LocalStep, Becomes
<1>10. CASE Transition
  <2>1. PICK s \in StatesOf[Autotuner] :
          Becomes([Top EXCEPT !.phase = "enter", !.todo = ParamsOf[s]])
    BY <1>10 DEF Transition
  <2>2. [Top EXCEPT !.phase = "enter", !.todo = ParamsOf[s]] \in Frame
    BY <1>1, <1>2, FrameUpdates, Zenon
  <2>3. variables' \in Environments  BY <1>1, <1>10, ForgetFacts DEF Transition
  <2>4. QED  BY <1>1, <1>10, <2>1, <2>2, <2>3, Zenon DEF Transition, LocalStep, Becomes
<1>11. CASE Terminal
  <2>1. [Top EXCEPT !.phase = "extract"] \in Frame  BY <1>1, FrameUpdates, Zenon
  <2>2. variables' \in Environments  BY <1>1, <1>11, ForgetFacts DEF Terminal
  <2>3. QED  BY <1>1, <1>11, <2>1, <2>2, Zenon DEF Terminal, LocalStep, Becomes
<1>12. CASE FallThrough
  <2>1. variables' \in Environments  BY <1>1, <1>12, ForgetFacts DEF FallThrough
  <2>2. QED  BY <1>1, <1>12, <2>1 DEF FallThrough, LocalStep
<1>13. CASE Throw
  BY <1>1, <1>13 DEF Throw, LocalStep
<1>14. QED
  BY <1>3, <1>4, <1>5, <1>6, <1>7, <1>8, <1>9, <1>10, <1>11, <1>12, <1>13
  DEF LocalAction

LEMMA StepIsOfOneKind ==
  ASSUME TypeOK, Next
  PROVE  (LocalAction /\ LocalStep) \/ BeginStep \/ EndStep
<1>1. ASSUME NEW a \in Autotuners, Run(a) PROVE BeginStep
  <2> DEFINE f == [auto |-> a, phase |-> "init", todo |-> {},
                   globals |-> {}, scope |-> {}]
  <2>1. f \in Frame  BY DEF Frame, Phases
  <2>2. QED  BY <1>1, <2>1 DEF Run, BeginStep
<1>2. ASSUME Return \/ Unwind PROVE EndStep
  <2>1. frames # <<>>  BY <1>2 DEF Return, Unwind, In, Running, TypeOK
  <2>2. Depth > 0 /\ Depth \in Nat  BY <2>1, TopIsFrame
  <2>3. CASE Return
    <3>1. throwing = FALSE  BY <2>3 DEF Return, In, Running, TypeOK
    <3>2. throwing' = FALSE  BY <2>3, <3>1 DEF Return
    <3>3. QED  BY <2>2, <2>3, <3>2 DEF Return, EndStep
  <2>4. CASE Unwind
    <3>1. throwing' = (Depth > 1)  BY <2>4 DEF Unwind
    <3>2. Depth = 1 => ~(Depth > 1)  OBVIOUS
    <3>3. (Depth > 1) \in BOOLEAN  BY SMT
    <3>4. throwing' \in BOOLEAN /\ (Depth = 1 => ~throwing')
      BY <3>1, <3>2, <3>3, Zenon
    <3>5. QED  BY <2>2, <2>4, <3>4, Zenon DEF Unwind, EndStep
  <2>5. QED  BY <1>2, <2>3, <2>4
<1>3. QED  BY <1>1, <1>2, LocalSteps DEF Next, LocalAction

-----------------------------------------------------------------------------
(* Type correctness.                                                       *)

LEMMA InitTypeOK == Init => TypeOK
<1> SUFFICES ASSUME Init PROVE TypeOK
  OBVIOUS
<1>1. <<>> \in Seq(Environments) /\ <<>> \in Seq(Frame) /\ Len(<<>>) = 0
  BY EmptySeq
<1>2. 0 <= MaxDepth  BY MaxDepthAssumption
<1>3. throwing \in BOOLEAN /\ ~throwing  BY Zenon DEF Init
<1>4. variables \in Environments  BY EmptyIsEnvironment DEF Init
<1>5. QED
  BY <1>1, <1>2, <1>3, <1>4, Zenon DEF Init, TypeOK

LEMMA LocalType ==
  ASSUME TypeOK, LocalStep
  PROVE  /\ TypeOK'
         /\ Depth' = Depth
         /\ \A i \in 1..Depth : i # Depth => frames'[i] = frames[i]
<1>1. PICK f \in Frame : frames' = [frames EXCEPT ![Depth] = f]
  BY DEF LocalStep
<1>2. Depth \in 1..Len(frames)  BY LenProperties DEF TypeOK, LocalStep, Depth
<1>3. /\ frames' \in Seq(Frame)
      /\ Len(frames') = Len(frames)
      /\ \A j \in 1..Len(frames) : frames'[j] = IF j = Depth THEN f ELSE frames[j]
  BY <1>1, <1>2, ExceptSeq DEF TypeOK
<1>4. frames' # <<>>  BY <1>2, <1>3, EmptySeq
<1>5. QED  BY <1>3, <1>4 DEF TypeOK, LocalStep, Depth

LEMMA BeginType ==
  ASSUME TypeOK, BeginStep
  PROVE  /\ TypeOK'
         /\ Depth' = Depth + 1
         /\ \A i \in 1..Depth : /\ frames'[i] = frames[i]
                              /\ saved'[i] = saved[i]
         /\ frames'[Depth + 1].phase = "init"
         /\ saved'[Depth + 1] = variables
<1>1. PICK f \in Frame : f.phase = "init" /\ frames' = Append(frames, f)
  BY DEF BeginStep
<1>2. /\ frames' \in Seq(Frame)
      /\ frames' # <<>>
      /\ Len(frames') = Len(frames) + 1
      /\ \A i \in 1..Len(frames) : frames'[i] = frames[i]
      /\ frames'[Len(frames) + 1] = f
  BY <1>1, AppendProperties DEF TypeOK
<1>3. /\ saved' \in Seq(Environments)
      /\ Len(saved') = Len(saved) + 1
      /\ \A i \in 1..Len(saved) : saved'[i] = saved[i]
      /\ saved'[Len(saved) + 1] = variables
  BY AppendProperties DEF TypeOK, BeginStep
<1>4. variables' \in Environments  BY EmptyIsEnvironment DEF BeginStep
<1>5. Len(frames) \in Nat  BY LenProperties DEF TypeOK
<1>6. QED
  BY <1>1, <1>2, <1>3, <1>4, <1>5, MaxDepthAssumption DEF TypeOK, BeginStep, Depth

LEMMA EndType ==
  ASSUME TypeOK, EndStep
  PROVE  /\ TypeOK'
         /\ Depth' = Depth - 1
         /\ \A i \in 1..Depth - 1 : /\ frames'[i] = frames[i]
                                  /\ saved'[i] = saved[i]
         /\ variables' = saved[Depth]
<1>1. Depth \in Nat /\ Depth > 0 /\ Len(saved) = Depth /\ Len(frames) = Depth
  BY LenProperties DEF TypeOK, EndStep, Depth
<1>2. \A i \in 1..Depth : frames[i] \in Frame /\ saved[i] \in Environments
  BY <1>1, ElementOfSeq DEF TypeOK
<1>3. /\ frames' \in Seq(Frame)
      /\ Len(frames') = Depth - 1
      /\ \A i \in 1..Depth - 1 : frames'[i] = frames[i]
  <2>1. frames' = SubSeq(frames, 1, Depth - 1)  BY DEF EndStep, Pop
  <2>2. \A i \in 1..Depth - 1 : frames[i] \in Frame  BY <1>1, <1>2
  <2>3. QED  BY <1>1, <2>1, <2>2, SubSeqProperties
<1>4. /\ saved' \in Seq(Environments)
      /\ Len(saved') = Depth - 1
      /\ \A i \in 1..Depth - 1 : saved'[i] = saved[i]
  <2>1. saved' = SubSeq(saved, 1, Depth - 1)  BY DEF EndStep, Restore
  <2>2. \A i \in 1..Depth - 1 : saved[i] \in Environments  BY <1>1, <1>2
  <2>3. QED  BY <1>1, <2>1, <2>2, SubSeqProperties
<1>5. variables' = saved[Depth] /\ saved[Depth] \in Environments
  BY <1>1, <1>2 DEF EndStep, Restore
<1>6. frames' = <<>> => ~throwing'
  <2>1. frames' = <<>> => Depth = 1  BY <1>1, <1>3, EmptySeq
  <2>2. QED  BY <2>1 DEF EndStep
<1>7. Depth - 1 <= MaxDepth  BY <1>1, MaxDepthAssumption DEF TypeOK
<1>8. QED
  BY <1>1, <1>3, <1>4, <1>5, <1>6, <1>7 DEF TypeOK, EndStep, Depth

LEMMA NextTypeOK == TypeOK /\ [Next]_vars => TypeOK'
<1>1. ASSUME TypeOK, Next PROVE TypeOK'
  BY <1>1, StepIsOfOneKind, LocalType, BeginType, EndType
<1>2. ASSUME TypeOK, UNCHANGED vars PROVE TypeOK'
  BY <1>2 DEF TypeOK, vars
<1>3. QED  BY <1>1, <1>2

(* The interpreter keeps its types: in particular there is one saved       *)
(* environment for each run in progress, and an exception only while there *)
(* is a run for it to leave.                                               *)
THEOREM TypeCorrect == Spec => []TypeOK
BY InitTypeOK, NextTypeOK, PTL DEF Spec

-----------------------------------------------------------------------------
(* Refinement.                                                             *)

Mapped == Append(saved, variables)

LEMMA MappedFacts ==
  ASSUME TypeOK
  PROVE  /\ Mapped \in Seq(Environments)
         /\ Len(Mapped) = Depth + 1
         /\ \A i \in 1..Depth : Mapped[i] = saved[i]
         /\ Mapped[Depth + 1] = variables
BY AppendProperties DEF TypeOK, Mapped, Depth

LEMMA LocalRefines ==
  ASSUME TypeOK, LocalStep
  PROVE  Stack!Compute
<1>1. Len(Mapped) = Depth + 1 /\ Depth + 1 > 1 /\ Depth \in Nat
  BY MappedFacts, LenProperties DEF LocalStep, Depth, TypeOK
<1>2. Mapped' = [Mapped EXCEPT ![Depth + 1] = variables']
  <2>1. Mapped' = Append(saved, variables')  BY DEF Mapped, LocalStep
  <2>2. /\ Append(saved, variables') \in Seq(Environments)
        /\ Len(Append(saved, variables')) = Depth + 1
        /\ \A i \in 1..Depth : Append(saved, variables')[i] = saved[i]
        /\ Append(saved, variables')[Depth + 1] = variables'
    BY AppendProperties DEF TypeOK, LocalStep, Depth
  <2> DEFINE t == [Mapped EXCEPT ![Depth + 1] = variables']
  <2>3. /\ t \in Seq(Environments)
        /\ Len(t) = Depth + 1
        /\ \A j \in 1..Depth + 1 : t[j] = IF j = Depth + 1 THEN variables' ELSE Mapped[j]
    BY <1>1, MappedFacts, ExceptSeq DEF LocalStep
  <2>4. \A j \in 1..Depth + 1 : Append(saved, variables')[j] = t[j]
    BY <1>1, <2>2, <2>3, MappedFacts
  <2>5. QED  BY <2>1, <2>2, <2>3, <2>4, SeqEqual
<1>3. QED  BY <1>1, <1>2 DEF Stack!Compute, Stack!Depth, Mapped, LocalStep

LEMMA BeginRefines ==
  ASSUME TypeOK, BeginStep
  PROVE  Stack!Begin
BY DEF Stack!Begin, BeginStep

LEMMA EndRefines ==
  ASSUME TypeOK, EndStep
  PROVE  Stack!End
<1>1. /\ TypeOK'
      /\ Depth' = Depth - 1
      /\ \A i \in 1..Depth - 1 : saved'[i] = saved[i]
      /\ variables' = saved[Depth]
      /\ Depth \in Nat /\ Depth > 0
  BY EndType, LenProperties DEF TypeOK, EndStep, Depth
<1>2. /\ Mapped' \in Seq(Environments)
      /\ Len(Mapped') = Depth
      /\ \A i \in 1..Depth - 1 : Mapped'[i] = saved'[i]
      /\ Mapped'[Depth] = variables'
  <2>1. /\ saved' \in Seq(Environments)
        /\ variables' \in Environments
        /\ Len(saved') = Depth - 1
    BY <1>1 DEF TypeOK, Depth
  <2>2. QED  BY <1>1, <2>1, AppendProperties DEF Mapped
<1> DEFINE t == SubSeq(Mapped, 1, Depth)
<1>3. /\ t \in Seq(Environments)
      /\ Len(t) = Depth
      /\ \A i \in 1..Depth : t[i] = Mapped[i]
  <2>1. \A i \in 1..Depth : Mapped[i] \in Environments
    BY <1>1, MappedFacts, ElementOfSeq
  <2>2. QED  BY <1>1, <2>1, SubSeqProperties
<1>4. \A i \in 1..Depth : Mapped'[i] = t[i]
  BY <1>1, <1>2, <1>3, MappedFacts
<1>5. Mapped' = t  BY <1>2, <1>3, <1>4, SeqEqual
<1>6. Len(Mapped) - 1 = Depth  BY <1>1, MappedFacts
<1>7. QED  BY <1>1, <1>5, <1>6, MappedFacts DEF Stack!End, Stack!Depth, Mapped

(* Every step of the interpreter is a step of the call stack: whatever a   *)
(* run does, returns or throws, its caller's environment is intact.        *)
THEOREM Refinement == Spec => ImplementsCallStack
<1>1. Init => Stack!Init
  BY DEF Init, Stack!Init
<1>2. TypeOK /\ [Next]_vars => [Stack!Next]_(Append(saved, variables))
  <2>1. ASSUME TypeOK, Next PROVE Stack!Next
    BY <2>1, StepIsOfOneKind, LocalRefines, BeginRefines, EndRefines DEF Stack!Next
  <2>2. ASSUME UNCHANGED vars
        PROVE  UNCHANGED Append(saved, variables)
    BY <2>2 DEF vars
  <2>3. QED  BY <2>1, <2>2
<1>3. QED  BY <1>1, <1>2, TypeCorrect, PTL DEF Spec, ImplementsCallStack, Stack!Spec

-----------------------------------------------------------------------------
(* The scope of an autotuner.  What its phase implies of a run, f its      *)
(* frame and e its environment.                                            *)

ScopeOf(f) == InputsOf[f.auto] \cup OutputsOf[f.auto]

FrameInv(f, e) ==
  /\ f.phase = "inputs" => InputsOf[f.auto] \subseteq DOMAIN e \cup f.todo
  /\ f.phase = "outputs" => ScopeOf(f) \subseteq DOMAIN e \cup f.todo
  /\ f.phase = "outputs" => InputsOf[f.auto] \subseteq DOMAIN e
  /\ f.phase \in {"enter", "extract"} =>
       ScopeOf(f) \subseteq f.scope /\ DOMAIN e = f.scope
  /\ f.phase = "state" =>
       /\ ScopeOf(f) \subseteq f.scope
       /\ f.scope \subseteq DOMAIN e
       /\ f.globals = f.scope

FramesInv == \A i \in 1..Depth : FrameInv(frames[i], EnvironmentOf(i))

IInv == TypeOK /\ FramesInv

LEMMA NewTop ==
  ASSUME TypeOK, frames # <<>>, NEW f, Becomes(f)
  PROVE  frames'[Depth] = f
BY LenProperties, EmptySeq DEF TypeOK, Becomes, Depth

(* A local step takes the innermost run from one phase to the next with    *)
(* the names that phase needs.                                             *)
LEMMA LocalFrame ==
  ASSUME TypeOK, FrameInv(Top, variables),
         LocalAction
  PROVE  FrameInv(frames'[Depth], variables')
<1>0. Running
  BY DEF LocalAction, Initialize, Initialized, SetInput, InputsSet, SetOutput, Start, Enter,
         BindParam, Assign, Transition, Terminal, FallThrough, Throw, InBody, In
<1>1. /\ frames # <<>> /\ Top \in Frame
      /\ variables \in Environments
      /\ DOMAIN variables \in SUBSET Names
      /\ Top.todo \subseteq Names
  BY <1>0, TopIsFrame, EnvironmentFacts DEF Running, TypeOK, Frame
<1>2. CASE Initialize
  <2>1. PICK n \in Names, v \in Values : Bind(n, v)  BY <1>2 DEF Initialize
  <2>2. frames' = frames /\ Top.phase = "init"  BY <1>2 DEF Initialize, In
  <2>3. QED  BY <2>2 DEF FrameInv, Top
<1>3. CASE Assign
  <2>1. PICK n \in Names, v \in Values : Bind(n, v)  BY <1>3 DEF Assign
  <2>2. DOMAIN variables' = DOMAIN variables \cup {n}
    BY <1>1, <2>1, BindFacts
  <2>3. frames' = frames /\ Top.phase = "state"  BY <1>3 DEF Assign, InBody, In
  <2>4. QED  BY <2>2, <2>3 DEF FrameInv, Top
<1>4. CASE SetInput \/ BindParam
  <2>1. PICK n \in Top.todo, v \in Values : Bind(n, v) /\ Settle(n)
    BY <1>4 DEF SetInput, BindParam
  <2>2. DOMAIN variables' = DOMAIN variables \cup {n}
    BY <1>1, <2>1, BindFacts
  <2>3. frames'[Depth] = [Top EXCEPT !.todo = Top.todo \ {n}]
    BY <1>1, <2>1, NewTop DEF Settle
  <2>4. Top.phase \in {"inputs", "state"}  BY <1>4 DEF SetInput, BindParam, In
  <2>5. QED  BY <1>1, <2>2, <2>3, <2>4 DEF FrameInv, ScopeOf, Frame
<1>5. CASE SetOutput
  <2>1. PICK n \in Top.todo :
          /\ Settle(n)
          /\ IF n \in DOMAIN variables
               THEN UNCHANGED variables
               ELSE \E v \in Values \cup {Unset} : Bind(n, v)
    BY <1>5 DEF SetOutput
  <2>2. DOMAIN variables' = DOMAIN variables \cup {n}
    BY <1>1, <2>1, BindFacts
  <2>3. frames'[Depth] = [Top EXCEPT !.todo = Top.todo \ {n}]
    BY <1>1, <2>1, NewTop DEF Settle
  <2>4. Top.phase = "outputs"  BY <1>5 DEF SetOutput, In
  <2>5. QED  BY <1>1, <2>2, <2>3, <2>4 DEF FrameInv, ScopeOf, Frame
<1>6. CASE Initialized
  <2>1. frames'[Depth] =
          [Top EXCEPT !.phase = "inputs", !.todo = InputsOf[Autotuner]]
    BY <1>1, <1>6, NewTop DEF Initialized
  <2>2. QED  BY <1>1, <2>1 DEF FrameInv, Frame, Autotuner
<1>7. CASE InputsSet
  <2>1. frames'[Depth] =
          [Top EXCEPT !.phase = "outputs", !.todo = OutputsOf[Autotuner]]
    BY <1>1, <1>7, NewTop DEF InputsSet
  <2>2. Top.phase = "inputs" /\ Top.todo = {} /\ variables' = variables
    BY <1>7 DEF InputsSet, In
  <2>3. QED  BY <1>1, <2>1, <2>2 DEF FrameInv, ScopeOf, Frame, Autotuner
<1>8. CASE Start
  <2>1. PICK st \in StatesOf[Autotuner] :
          Becomes([Top EXCEPT !.phase = "enter", !.todo = ParamsOf[st],
                              !.scope = DOMAIN variables])
    BY <1>8 DEF Start
  <2>2. frames'[Depth] = [Top EXCEPT !.phase = "enter", !.todo = ParamsOf[st],
                                     !.scope = DOMAIN variables]
    BY <1>1, <2>1, NewTop
  <2>3. Top.phase = "outputs" /\ Top.todo = {} /\ variables' = variables
    BY <1>8 DEF Start, In
  <2>4. QED  BY <1>1, <2>2, <2>3 DEF FrameInv, ScopeOf, Frame
<1>9. CASE Enter
  <2>1. frames'[Depth] =
          [Top EXCEPT !.phase = "state", !.globals = DOMAIN variables]
    BY <1>1, <1>9, NewTop DEF Enter
  <2>2. Top.phase = "enter" /\ variables' = variables  BY <1>9 DEF Enter, In
  <2>3. QED  BY <1>1, <2>1, <2>2 DEF FrameInv, ScopeOf, Frame
<1>10. ASSUME InBody, ForgetLocals
       PROVE  DOMAIN variables' = Top.scope /\ ScopeOf(Top) \subseteq Top.scope
  <2>1. DOMAIN variables' = DOMAIN variables \cap Top.globals
    BY <1>1, <1>10, ForgetFacts
  <2>2. Top.phase = "state"  BY <1>10 DEF InBody, In
  <2>3. QED  BY <2>1, <2>2 DEF FrameInv
<1>11. CASE Transition
  <2>1. PICK st \in StatesOf[Autotuner] :
          Becomes([Top EXCEPT !.phase = "enter", !.todo = ParamsOf[st]])
    BY <1>11 DEF Transition
  <2>2. frames'[Depth] = [Top EXCEPT !.phase = "enter", !.todo = ParamsOf[st]]
    BY <1>1, <2>1, NewTop
  <2>3. DOMAIN variables' = Top.scope /\ ScopeOf(Top) \subseteq Top.scope
    BY <1>10, <1>11 DEF Transition
  <2>4. QED  BY <1>1, <2>2, <2>3 DEF FrameInv, ScopeOf, Frame
<1>12. CASE Terminal
  <2>1. frames'[Depth] = [Top EXCEPT !.phase = "extract"]
    BY <1>1, <1>12, NewTop DEF Terminal
  <2>2. DOMAIN variables' = Top.scope /\ ScopeOf(Top) \subseteq Top.scope
    BY <1>10, <1>12 DEF Terminal
  <2>3. QED  BY <1>1, <2>1, <2>2 DEF FrameInv, ScopeOf, Frame
<1>13. CASE FallThrough
  <2>1. DOMAIN variables' = Top.scope /\ ScopeOf(Top) \subseteq Top.scope
    BY <1>10, <1>13 DEF FallThrough
  <2>2. frames' = frames /\ Top.phase = "state"
    BY <1>13 DEF FallThrough, InBody, In
  <2>3. QED  BY <2>1, <2>2 DEF FrameInv, Top
<1>14. CASE Throw
  BY <1>14 DEF Throw, FrameInv, Top
<1>15. QED
  BY <1>2, <1>3, <1>4, <1>5, <1>6, <1>7, <1>8, <1>9, <1>11, <1>12, <1>13, <1>14
  DEF LocalAction

LEMMA LocalFrames ==
  ASSUME IInv, LocalAction, LocalStep
  PROVE  FramesInv'
<1>1. Depth \in Nat /\ Depth > 0 /\ Depth \in 1..Depth
  BY LenProperties DEF IInv, TypeOK, LocalStep, Depth
<1>2. /\ Depth' = Depth
      /\ \A i \in 1..Depth : i # Depth => frames'[i] = frames[i]
      /\ saved' = saved
  BY LocalType DEF IInv, LocalStep
<1>3. FrameInv(Top, variables)
  BY <1>1 DEF IInv, FramesInv, EnvironmentOf, Top
<1>4. FrameInv(frames'[Depth], variables')
  BY <1>3, LocalFrame DEF IInv
<1>5. \A i \in 1..Depth : i # Depth => FrameInv(frames'[i], saved'[i + 1])
  BY <1>2 DEF IInv, FramesInv, EnvironmentOf
<1>6. QED  BY <1>2, <1>4, <1>5 DEF FramesInv, EnvironmentOf

(* The caller's environment goes to the top of saved as it is, and the new *)
(* run has no names to answer for yet.                                     *)
LEMMA BeginFrames ==
  ASSUME IInv, BeginStep
  PROVE  FramesInv'
<1>1. /\ Depth \in Nat
      /\ Depth' = Depth + 1
      /\ \A i \in 1..Depth : frames'[i] = frames[i] /\ saved'[i] = saved[i]
      /\ frames'[Depth + 1].phase = "init"
      /\ saved'[Depth + 1] = variables
  BY BeginType, LenProperties DEF IInv, TypeOK, Depth
<1>2. FrameInv(frames'[Depth + 1], variables')  BY <1>1 DEF FrameInv
<1>3. \A i \in 1..Depth : saved'[i + 1] = EnvironmentOf(i)
  BY <1>1 DEF EnvironmentOf
<1>4. \A i \in 1..Depth : FrameInv(frames'[i], saved'[i + 1])
  BY <1>1, <1>3 DEF IInv, FramesInv
<1>5. QED  BY <1>1, <1>2, <1>4 DEF FramesInv, EnvironmentOf

LEMMA EndFrames ==
  ASSUME IInv, EndStep
  PROVE  FramesInv'
<1>1. /\ Depth \in Nat /\ Depth > 0
      /\ Depth' = Depth - 1
      /\ \A i \in 1..Depth - 1 : frames'[i] = frames[i] /\ saved'[i] = saved[i]
      /\ variables' = saved[Depth]
  BY EndType, LenProperties DEF IInv, TypeOK, EndStep, Depth
<1>2. \A i \in 1..Depth - 1 : FrameInv(frames'[i], saved[i + 1])
  BY <1>1 DEF IInv, FramesInv, EnvironmentOf
<1>3. \A i \in 1..Depth - 1 :
        saved[i + 1] = IF i = Depth - 1 THEN variables' ELSE saved'[i + 1]
  BY <1>1
<1>4. QED  BY <1>1, <1>2, <1>3 DEF FramesInv, EnvironmentOf

LEMMA InitIInv == Init => IInv
<1>1. Init => Depth = 0  BY EmptySeq DEF Init, Depth
<1>2. QED  BY <1>1, InitTypeOK DEF IInv, FramesInv

LEMMA NextIInv == IInv /\ [Next]_vars => IInv'
<1>1. IInv /\ [Next]_vars => TypeOK'  BY NextTypeOK DEF IInv
<1>2. ASSUME IInv, Next PROVE FramesInv'
  BY <1>2, StepIsOfOneKind, LocalFrames, BeginFrames, EndFrames DEF IInv
<1>3. ASSUME IInv, UNCHANGED vars PROVE FramesInv'
  BY <1>3 DEF IInv, FramesInv, EnvironmentOf, Depth, vars
<1>4. QED  BY <1>1, <1>2, <1>3 DEF IInv

(* From its first state on, a run has the names its scope had then: all    *)
(* inputs and outputs, none lost and none of a state left behind.          *)
THEOREM ScopeFixed == Spec => []ScopeIsFixed
<1>1. IInv => ScopeIsFixed
  BY DEF IInv, FramesInv, FrameInv, ScopeOf, ScopeIsFixed
<1>2. QED  BY <1>1, InitIInv, NextIInv, PTL DEF Spec
=============================================================================
