----------------------------- MODULE Interpreter -----------------------------
(***************************************************************************)
(* The autotuner interpreter.  One Interpreter object runs every autotuner *)
(* of a program; an autotuner that calls another re-enters run() on it, so *)
(* all of them share the member variables_.  run() moves it aside, builds  *)
(* the scope of the autotuner in it, executes states until one terminates  *)
(* or an evaluation throws, and puts it back.                              *)
(*                                                                         *)
(* The program is left open: a body is any sequence of the statements the  *)
(* parser accepts.  A statement that computes is an assignment of some     *)
(* value; every evaluation may call an autotuner, and may throw.           *)
(***************************************************************************)
EXTENDS Naturals, Sequences

CONSTANTS
  Names,        \* names of variables
  Values,       \* values an expression can have
  Unset,        \* RuntimeValue(), what an output without a default holds
  Autotuners,
  InputsOf,     \* InputsOf[a], OutputsOf[a]: the parameters of a
  OutputsOf,
  StatesOf,     \* StatesOf[a]: its states
  ParamsOf,     \* ParamsOf[s]: the parameters of a state
  MaxDepth      \* bound: runs within runs

ASSUME ProgramAssumption ==
  \A a \in Autotuners :
    /\ InputsOf[a] \subseteq Names
    /\ OutputsOf[a] \subseteq Names
    /\ \A s \in StatesOf[a] : ParamsOf[s] \subseteq Names

ASSUME MaxDepthAssumption == MaxDepth \in Nat

Environments == UNION {[D -> Values \cup {Unset}] : D \in SUBSET Names}

Empty == [n \in {} |-> Unset]

VARIABLES
  variables,    \* variables_, the environment of the innermost run
  saved,        \* the saved_variables of the runs in progress
  frames,       \* the runs in progress, the innermost last
  throwing      \* an exception is on its way out of the innermost run

vars == <<variables, saved, frames, throwing>>

Phases == {"init", "inputs", "outputs", "enter", "state", "extract"}

\* scope is not in the code: the names bound when the states start.
Frame == [auto : Autotuners, phase : Phases, todo : SUBSET Names,
          globals : SUBSET Names, scope : SUBSET Names]

TypeOK ==
  /\ variables \in Environments
  /\ saved \in Seq(Environments)
  /\ frames \in Seq(Frame)
  /\ Len(saved) = Len(frames)
  /\ Len(frames) <= MaxDepth
  /\ throwing \in BOOLEAN
  /\ frames = <<>> => ~throwing

Init ==
  /\ variables = Empty
  /\ saved = <<>>
  /\ frames = <<>>
  /\ throwing = FALSE

Depth == Len(frames)

Running == frames # <<>> /\ ~throwing

Top == frames[Depth]

In(phase) == Running /\ Top.phase = phase

Autotuner == Top.auto

Bind(n, v) ==
  variables' = [m \in DOMAIN variables \cup {n} |->
                  IF m = n THEN v ELSE variables[m]]

Becomes(f) == frames' = [frames EXCEPT ![Depth] = f]

\* A value has been found for n, one of the names still to be bound.
Settle(n) == Becomes([Top EXCEPT !.todo = @ \ {n}])

-----------------------------------------------------------------------------
(* run(), called by the engine or by an expression of a run in progress.   *)

Run(a) ==
  /\ frames = <<>> \/ (Running /\ Top.phase \notin {"enter", "extract"})
  /\ Depth < MaxDepth
  /\ saved' = Append(saved, variables)
  /\ variables' = Empty
  /\ frames' = Append(frames, [auto |-> a, phase |-> "init", todo |-> {},
                               globals |-> {}, scope |-> {}])
  /\ UNCHANGED throwing

Pop == frames' = SubSeq(frames, 1, Depth - 1)

Restore ==
  /\ variables' = saved[Depth]
  /\ saved' = SubSeq(saved, 1, Depth - 1)

-----------------------------------------------------------------------------
(* The scope of the autotuner: the statements before `start`, the inputs,  *)
(* the outputs those statements have not set.                              *)

Initialize ==
  /\ In("init")
  /\ \E n \in Names, v \in Values : Bind(n, v)
  /\ UNCHANGED <<saved, frames, throwing>>

Initialized ==
  /\ In("init")
  /\ Becomes([Top EXCEPT !.phase = "inputs", !.todo = InputsOf[Autotuner]])
  /\ UNCHANGED <<variables, saved, throwing>>

\* The value given, or else the default; a missing one throws.
SetInput ==
  /\ In("inputs")
  /\ \E n \in Top.todo, v \in Values : Bind(n, v) /\ Settle(n)
  /\ UNCHANGED <<saved, throwing>>

InputsSet ==
  /\ In("inputs") /\ Top.todo = {}
  /\ Becomes([Top EXCEPT !.phase = "outputs", !.todo = OutputsOf[Autotuner]])
  /\ UNCHANGED <<variables, saved, throwing>>

SetOutput ==
  /\ In("outputs")
  /\ \E n \in Top.todo :
       /\ Settle(n)
       /\ IF n \in DOMAIN variables
            THEN UNCHANGED variables
            ELSE \E v \in Values \cup {Unset} : Bind(n, v)
  /\ UNCHANGED <<saved, throwing>>

\* Which state `start` names does not matter: every state is tried.
Start ==
  /\ In("outputs") /\ Top.todo = {}
  /\ \E s \in StatesOf[Autotuner] :
       Becomes([Top EXCEPT !.phase = "enter", !.todo = ParamsOf[s],
                           !.scope = DOMAIN variables])
  /\ UNCHANGED <<variables, saved, throwing>>

-----------------------------------------------------------------------------
(* execute_state(): remember the names there are, bind the parameters, run *)
(* the body, forget the names that were not there.                         *)

Enter ==
  /\ In("enter")
  /\ Becomes([Top EXCEPT !.phase = "state", !.globals = DOMAIN variables])
  /\ UNCHANGED <<variables, saved, throwing>>

\* The value the transition gave, or else the default.
BindParam ==
  /\ In("state")
  /\ \E n \in Top.todo, v \in Values : Bind(n, v) /\ Settle(n)
  /\ UNCHANGED <<saved, throwing>>

InBody == In("state") /\ Top.todo = {}

\* A declaration or an assignment.  The parser reports one to a parameter,
\* and goes on: the statement is executed like any other.
Assign ==
  /\ InBody
  /\ \E n \in Names, v \in Values : Bind(n, v)
  /\ UNCHANGED <<saved, frames, throwing>>

ForgetLocals ==
  variables' = [n \in DOMAIN variables \cap Top.globals |-> variables[n]]

\* Fault: the names of the state outlive a transition.
TransitionKeepingLocals ==
  /\ InBody
  /\ \E s \in StatesOf[Autotuner] :
       Becomes([Top EXCEPT !.phase = "enter", !.todo = ParamsOf[s]])
  /\ UNCHANGED <<variables, saved, throwing>>

Transition ==
  /\ InBody
  /\ ForgetLocals
  /\ \E s \in StatesOf[Autotuner] :
       Becomes([Top EXCEPT !.phase = "enter", !.todo = ParamsOf[s]])
  /\ UNCHANGED <<saved, throwing>>

Terminal ==
  /\ InBody
  /\ ForgetLocals
  /\ Becomes([Top EXCEPT !.phase = "extract"])
  /\ UNCHANGED <<saved, throwing>>

\* The body ends without either: run() throws after the names are forgotten.
FallThrough ==
  /\ InBody
  /\ ForgetLocals
  /\ throwing' = TRUE
  /\ UNCHANGED <<saved, frames>>

-----------------------------------------------------------------------------
(* The ends of run().                                                      *)

Return ==
  /\ In("extract")
  /\ OutputsOf[Autotuner] \subseteq DOMAIN variables
  /\ Restore
  /\ Pop
  /\ UNCHANGED throwing

\* An evaluation throws: a missing input or argument, a nil, an unknown name
\* or state, a wrong number of parameters, an error of a routine; or there is
\* no value for an output.
Throw ==
  /\ Running
  /\ In("extract") => ~(OutputsOf[Autotuner] \subseteq DOMAIN variables)
  /\ throwing' = TRUE
  /\ UNCHANGED <<variables, saved, frames>>

\* Fault: only a run that returns restores the caller's environment.
UnwindUnrestored ==
  /\ throwing
  /\ saved' = SubSeq(saved, 1, Depth - 1)
  /\ Pop
  /\ throwing' = (Depth > 1)
  /\ UNCHANGED variables

\* Fault: the environment moved aside is not given up on an exception.
UnwindKeepsSaved ==
  /\ throwing
  /\ variables' = saved[Depth]
  /\ Pop
  /\ throwing' = (Depth > 1)
  /\ UNCHANGED saved

\* catch (...) { restore; throw; }: the caller's evaluation throws in turn.
Unwind ==
  /\ throwing
  /\ Restore
  /\ Pop
  /\ throwing' = (Depth > 1)

-----------------------------------------------------------------------------
Next ==
  \/ \E a \in Autotuners : Run(a)
  \/ Initialize \/ Initialized \/ SetInput \/ InputsSet \/ SetOutput \/ Start
  \/ Enter \/ BindParam \/ Assign \/ Transition \/ Terminal \/ FallThrough
  \/ Return \/ Throw \/ Unwind

Spec == Init /\ [][Next]_vars

-----------------------------------------------------------------------------
(* Properties.                                                             *)

\* The environment of each run in progress.
EnvironmentOf(i) == IF i = Depth THEN variables ELSE saved[i + 1]

(* The scope of an autotuner is fixed when its states start: its inputs    *)
(* and outputs are in it, no state removes a name from it, and none of     *)
(* what a state declares or receives is there for the next one, whatever   *)
(* the autotuners called in between did with the same variables_.          *)
ScopeIsFixed ==
  \A i \in 1..Depth :
    LET f == frames[i] IN
    f.phase \in {"enter", "state", "extract"} =>
      /\ InputsOf[f.auto] \cup OutputsOf[f.auto] \subseteq f.scope
      /\ f.scope \subseteq DOMAIN EnvironmentOf(i)
      /\ f.phase = "state" \/ DOMAIN EnvironmentOf(i) = f.scope

(* Calls keep the environments of the runs apart, although there is only   *)
(* one variables_: the interpreter implements CallStack.                   *)
Stack == INSTANCE CallStack WITH envs <- Append(saved, variables)

ImplementsCallStack == Stack!Spec
=============================================================================
