---------------------------- MODULE StructRoutines ----------------------------
(***************************************************************************)
(* Routines of structs.  A struct value is shared by everything that holds *)
(* it.  Each call of a routine gets an environment of its own in which the *)
(* fields of its object are copied under their bare names, so there are as *)
(* many copies of a field as there are calls on the object in progress; a  *)
(* bare name reads the copy, an assignment writes the object and the copy  *)
(* of the innermost call.  On return the fields go from the object to the  *)
(* copies and back, which also gives the object the fields it has not got. *)
(*                                                                         *)
(* Nothing checks the name of a member: a program assigns to any, and a    *)
(* read of one that the object has not got puts it there.                  *)
(*                                                                         *)
(* The program is left open: a body is any sequence of statements.         *)
(***************************************************************************)
EXTENDS Naturals, Sequences

CONSTANTS
  Objects,
  Nobody,       \* the receiver of a state of an autotuner
  Fields,       \* the fields of the struct
  Names,        \* names of variables and of members, those of the fields among them
  Values,
  Zero,         \* the value of a member that a read puts into an object
  Defaults,     \* Defaults[n]: the initializer of a field, the default of an output
  Routines,     \* the routines of the struct that have a body
  ParamsOf,     \* ParamsOf[r]: the input parameters of r
  OutputsOf,    \* OutputsOf[r]: its outputs
  PresetOf,     \* PresetOf[r]: the outputs that have a default
  MaxDepth      \* bound: calls within calls, and the state that makes them

ASSUME StructAssumption ==
  /\ Nobody \notin Objects
  /\ Fields \subseteq Names
  /\ Zero \in Values
  /\ Defaults \in [Names -> Values]
  /\ \A r \in Routines :
       /\ ParamsOf[r] \subseteq Names
       /\ OutputsOf[r] \subseteq Names
       /\ PresetOf[r] \subseteq OutputsOf[r]

ASSUME DepthAssumption == MaxDepth \in Nat \ {0}

VARIABLES
  fields,       \* fields[o]: the members that the object o has, for each o there is
  frames,       \* the calls in progress, the innermost last
  assigned      \* assigned[o][n]: what a statement assigned to the member last

vars == <<fields, frames, assigned>>

Bindings(S) == UNION {[D -> Values] : D \in SUBSET S}

Empty == [n \in {} |-> Nobody]

\* disturbed is not in the code: the fields whose copy something else than an
\* assignment of this call to its own object may have made differ from it.
Frame == [this : Objects \cup {Nobody}, outputs : SUBSET Names,
          env : Bindings(Names), disturbed : SUBSET Fields]

TypeOK ==
  /\ DOMAIN fields \subseteq Objects
  /\ DOMAIN assigned = DOMAIN fields
  /\ \A o \in DOMAIN fields :
       /\ fields[o] \in Bindings(Names)
       /\ assigned[o] \in Bindings(Names)
       /\ DOMAIN assigned[o] \subseteq DOMAIN fields[o]
  /\ frames \in Seq(Frame)
  /\ Len(frames) \in 1..MaxDepth
  /\ frames[1].this = Nobody
  /\ \A i \in 2..Len(frames) :
       /\ frames[i].this \in DOMAIN fields
       /\ Fields \subseteq DOMAIN frames[i].env

\* A state that has not declared anything.
State == [this |-> Nobody, outputs |-> {}, env |-> Empty, disturbed |-> {}]

Init ==
  /\ fields = Empty
  /\ frames = <<State>>
  /\ assigned = Empty

Depth == Len(frames)

Top == frames[Depth]

Bind(env, n, v) == [m \in DOMAIN env \cup {n} |-> IF m = n THEN v ELSE env[m]]

Changed(frame, env, disturbed) ==
  [this |-> frame.this, outputs |-> frame.outputs, env |-> env, disturbed |-> disturbed]

Disturb(frame, F) == Changed(frame, frame.env, frame.disturbed \cup F)

-----------------------------------------------------------------------------
(* Objects.  A static receiver and an output get every field; a variable   *)
(* declared without a value gets an object that has none.                  *)

Create(o) ==
  /\ o \notin DOMAIN fields
  /\ \E D \in {{}, Fields} : fields' = Bind(fields, o, [f \in D |-> Defaults[f]])
  /\ assigned' = Bind(assigned, o, Empty)
  /\ UNCHANGED frames

-----------------------------------------------------------------------------
(* Statements of the innermost call.                                       *)

\* A declaration, whatever its name, or the assignment of a variable: the
\* parser makes the assignment of a bare name of a field a FieldAssign.
Assign ==
  /\ \E n \in Names, v \in Values :
       frames' = [frames EXCEPT
         ![Depth] = Changed(Top, Bind(Top.env, n, v), Top.disturbed \cup ({n} \cap Fields))]
  /\ UNCHANGED <<fields, assigned>>

Elsewhere(o, F) ==
  [i \in DOMAIN frames |->
     IF frames[i].this = o THEN Disturb(frames[i], F) ELSE frames[i]]

\* A member that the object has not got: it gets one (get_field).  To a call
\* whose copy of it has the initializer, the object has changed.
MemberRead(o, n) ==
  /\ o \in DOMAIN fields
  /\ n \notin DOMAIN fields[o]
  /\ fields' = [fields EXCEPT ![o] = Bind(@, n, Zero)]
  /\ frames' = Elsewhere(o, {f \in Fields \cap {n} : Defaults[f] # Zero})
  /\ UNCHANGED assigned

\* A variable named like the member is taken for the copy, whose object it is
\* that gets the value.
Copied(o, n, v) ==
  Changed(Top, IF n \in DOMAIN Top.env THEN Bind(Top.env, n, v) ELSE Top.env,
               IF o = Top.this THEN Top.disturbed \ {n}
               ELSE Top.disturbed \cup (Fields \cap {n}))

\* Fault: only the object gets the value.
FieldAssignUncopied(o, n, v) ==
  /\ o \in DOMAIN fields
  /\ fields' = [fields EXCEPT ![o] = Bind(@, n, v)]
  /\ assigned' = [assigned EXCEPT ![o] = Bind(@, n, v)]
  /\ frames' = [Elsewhere(o, Fields \cap {n})
                  EXCEPT ![Depth] = [Copied(o, n, v) EXCEPT !.env = Top.env]]

FieldAssign(o, n, v) ==
  /\ o \in DOMAIN fields
  /\ fields' = [fields EXCEPT ![o] = Bind(@, n, v)]
  /\ assigned' = [assigned EXCEPT ![o] = Bind(@, n, v)]
  /\ frames' = [Elsewhere(o, Fields \cap {n}) EXCEPT ![Depth] = Copied(o, n, v)]

-----------------------------------------------------------------------------
(* exec_struct_routine().                                                  *)

FieldOf(o, f) == IF f \in DOMAIN fields[o] THEN fields[o][f] ELSE Defaults[f]

\* Fault: a field the object has not got is not copied.
EnvironmentUnset(o, r, args) ==
  [n \in DOMAIN fields[o] \cup ParamsOf[r] \cup PresetOf[r] |->
     IF n \in PresetOf[r] THEN Defaults[n]
     ELSE IF n \in ParamsOf[r] THEN args[n]
     ELSE FieldOf(o, n)]

\* The copies; over them the arguments, and over these the outputs.
Environment(o, r, args) ==
  [n \in Fields \cup ParamsOf[r] \cup PresetOf[r] |->
     IF n \in PresetOf[r] THEN Defaults[n]
     ELSE IF n \in ParamsOf[r] THEN args[n]
     ELSE FieldOf(o, n)]

Call(o, r) ==
  /\ Depth < MaxDepth
  /\ o \in DOMAIN fields
  /\ \E args \in [ParamsOf[r] -> Values] :
       frames' = Append(frames,
         [this |-> o, outputs |-> OutputsOf[r], env |-> Environment(o, r, args),
          disturbed |-> Fields \cap (ParamsOf[r] \cup PresetOf[r])])
  /\ UNCHANGED <<fields, assigned>>

\* The object's own members, and the copies of the fields it has not got.
Synced(o) ==
  [n \in DOMAIN fields[o] \cup Fields |->
     IF n \in DOMAIN fields[o] THEN fields[o][n] ELSE Top.env[n]]

\* An output without a value: the call throws when its fields are written.
Ends(o) ==
  frames' = IF Top.outputs \subseteq DOMAIN Top.env
              THEN SubSeq(Elsewhere(o, Fields \ DOMAIN fields[o]), 1, Depth - 1)
              ELSE <<State>>

\* Fault: the copies are written to the object as they are.
ReturnUnsynced ==
  /\ Depth > 1
  /\ fields' = [fields EXCEPT ![Top.this] =
       [n \in DOMAIN @ \cup Fields |-> IF n \in Fields THEN Top.env[n] ELSE @[n]]]
  /\ Ends(Top.this)
  /\ UNCHANGED assigned

Return ==
  /\ Depth > 1
  /\ fields' = [fields EXCEPT ![Top.this] = Synced(Top.this)]
  /\ Ends(Top.this)
  /\ UNCHANGED assigned

\* Nothing catches an exception before the program ends; the objects remain
\* with the host.  A state that ends leaves them likewise.
Throw ==
  /\ frames' = <<State>>
  /\ UNCHANGED <<fields, assigned>>

-----------------------------------------------------------------------------
Next ==
  \/ \E o \in Objects :
       \/ Create(o)
       \/ \E n \in Names : MemberRead(o, n)
       \/ \E n \in Names, v \in Values : FieldAssign(o, n, v)
       \/ \E r \in Routines : Call(o, r)
  \/ Assign \/ Return \/ Throw

Spec == Init /\ [][Next]_vars

-----------------------------------------------------------------------------
(* Properties.                                                             *)

(* However many copies of it the calls in progress keep, a member holds    *)
(* what was assigned to it last: no return writes back an old copy, no     *)
(* read replaces it, and no argument, output or variable that bears its    *)
(* name gets into it.                                                      *)
UpdatesAreKept ==
  \A o \in DOMAIN fields : \A n \in DOMAIN assigned[o] :
    fields[o][n] = assigned[o][n]

(* A routine that reads a field by its bare name sees what the object      *)
(* holds, its own assignments included.  The exceptions are the fields it  *)
(* shadows, those that a call of its own assigned to the object meanwhile, *)
(* those it assigned to another object, and those the object got by a read *)
(* of the member, if the initializer is another value than a read inserts. *)
OwnWritesAreSeen ==
  \A i \in 2..Depth : \A f \in Fields \ frames[i].disturbed :
    frames[i].env[f] = FieldOf(frames[i].this, f)
=============================================================================
