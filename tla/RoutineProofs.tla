---------------------------- MODULE RoutineProofs ----------------------------
(***************************************************************************)
(* Proofs about the routines of structs: those with a body, for every      *)
(* struct and every depth of calls, and those of the C++ wrappers, for     *)
(* every table of wrappers.                                                *)
(*                                                                         *)
(* A call's frame is sound if its copies are those of its object, except   *)
(* for the disturbed ones; every step keeps the frames sound, and each     *)
(* field at what was assigned to it last.  A wrapper is sound if it takes  *)
(* what its declaration says; then the value a program holds stays what    *)
(* its own declaration says, whatever it goes through.                     *)
(***************************************************************************)
EXTENDS StructRoutines, ForeignCalls, SequenceTheorems, TLAPS

-----------------------------------------------------------------------------
(* Bindings of names to values.                                            *)

LEMMA BindingsFacts ==
  ASSUME NEW S, NEW e \in Bindings(S)
  PROVE  /\ DOMAIN e \subseteq S
         /\ \A n \in DOMAIN e : e[n] \in Values
         /\ e \in [DOMAIN e -> Values]
BY DEF Bindings

LEMMA BindingsIntro ==
  ASSUME NEW S, NEW D \in SUBSET S, NEW e \in [D -> Values]
  PROVE  e \in Bindings(S)
BY DEF Bindings

LEMMA EmptyBindings ==
  ASSUME NEW S
  PROVE  Empty \in Bindings(S) /\ DOMAIN Empty = {}
<1>1. Empty \in [{} -> Values]  BY DEF Empty
<1>2. QED  BY <1>1, BindingsIntro DEF Empty

(* A binding adds its name and changes no other one.                       *)
LEMMA BindFacts ==
  ASSUME NEW S, NEW e \in Bindings(S), NEW n \in S, NEW v \in Values
  PROVE  /\ Bind(e, n, v) \in Bindings(S)
         /\ DOMAIN Bind(e, n, v) = DOMAIN e \cup {n}
         /\ Bind(e, n, v)[n] = v
         /\ \A m \in DOMAIN e \ {n} : Bind(e, n, v)[m] = e[m]
<1> DEFINE D == DOMAIN e \cup {n}
<1>1. D \in SUBSET S  BY BindingsFacts
<1>2. Bind(e, n, v) \in [D -> Values]  BY BindingsFacts DEF Bind
<1>3. Bind(e, n, v) \in Bindings(S)  BY <1>1, <1>2, BindingsIntro
<1>4. QED  BY <1>3 DEF Bind

LEMMA BindingFacts ==
  ASSUME NEW e, NEW n, NEW v
  PROVE  /\ DOMAIN Bind(e, n, v) = DOMAIN e \cup {n}
         /\ Bind(e, n, v)[n] = v
         /\ \A m \in DOMAIN e \ {n} : Bind(e, n, v)[m] = e[m]
BY DEF Bind

-----------------------------------------------------------------------------
(* The inductive invariant.                                                *)

Held(flds, o, f) == IF f \in DOMAIN flds[o] THEN flds[o][f] ELSE Defaults[f]

Sound(frame, flds) ==
  /\ frame.this \in DOMAIN flds
  /\ Fields \subseteq DOMAIN frame.env
  /\ \A f \in Fields \ frame.disturbed : frame.env[f] = Held(flds, frame.this, f)

ObjectsOK ==
  /\ DOMAIN fields \subseteq Objects
  /\ DOMAIN assigned = DOMAIN fields
  /\ \A o \in DOMAIN fields :
       /\ fields[o] \in Bindings(Names)
       /\ assigned[o] \in Bindings(Names)
       /\ DOMAIN assigned[o] \subseteq DOMAIN fields[o]
       /\ \A f \in DOMAIN assigned[o] : fields[o][f] = assigned[o][f]

FramesOK ==
  /\ frames \in Seq(Frame)
  /\ Depth \in 1..MaxDepth
  /\ frames[1].this = Nobody
  /\ \A i \in 2..Depth : Sound(frames[i], fields)

IInv == ObjectsOK /\ FramesOK

LEMMA InvariantFacts == IInv <=> TypeOK /\ UpdatesAreKept /\ OwnWritesAreSeen
BY DEF IInv, ObjectsOK, FramesOK, Sound, Held, TypeOK, UpdatesAreKept,
       OwnWritesAreSeen, FieldOf, Depth

LEMMA StateIsFrame == State \in Frame /\ State.this = Nobody
BY EmptyBindings DEF State, Frame

(* Whatever has become of the objects, a program may begin anew.           *)
LEMMA BeginsAnew ==
  ASSUME frames' = <<State>>
  PROVE  FramesOK'
<1>1. <<State>> \in Seq(Frame)  BY StateIsFrame
<1>2. Len(<<State>>) = 1  OBVIOUS
<1>3. QED  BY <1>1, <1>2, StateIsFrame, DepthAssumption DEF FramesOK, Depth

LEMMA FramesFacts ==
  ASSUME FramesOK
  PROVE  /\ Depth \in Nat \ {0} /\ Depth \in DOMAIN frames
         /\ DOMAIN frames = 1..Depth
         /\ \A i \in 1..Depth : frames[i] \in Frame
         /\ Top \in Frame
         /\ Depth = 1 => Top.this = Nobody
         /\ Depth > 1 => Sound(Top, fields)
BY LenProperties, ElementOfSeq, DepthAssumption DEF FramesOK, Depth, Top

LEMMA FrameFacts ==
  ASSUME NEW frame \in Frame
  PROVE  /\ frame.this \in Objects \cup {Nobody}
         /\ frame.outputs \in SUBSET Names
         /\ frame.env \in Bindings(Names)
         /\ frame.disturbed \in SUBSET Fields
         /\ frame = [this |-> frame.this, outputs |-> frame.outputs,
                     env |-> frame.env, disturbed |-> frame.disturbed]
BY DEF Frame

LEMMA ChangedFacts ==
  ASSUME NEW frame \in Frame, NEW env \in Bindings(Names), NEW F \in SUBSET Fields
  PROVE  /\ Changed(frame, env, F) \in Frame
         /\ Changed(frame, env, F).this = frame.this
         /\ Changed(frame, env, F).outputs = frame.outputs
         /\ Changed(frame, env, F).env = env
         /\ Changed(frame, env, F).disturbed = F
BY FrameFacts DEF Changed, Frame

LEMMA DisturbFacts ==
  ASSUME NEW frame \in Frame, NEW F \in SUBSET Fields
  PROVE  /\ Disturb(frame, F) \in Frame
         /\ Disturb(frame, F).this = frame.this
         /\ Disturb(frame, F).env = frame.env
         /\ Disturb(frame, F).disturbed = frame.disturbed \cup F
BY FrameFacts, ChangedFacts DEF Disturb

(* More of the fields being disturbed, a sound frame stays sound.          *)
LEMMA DisturbIsSound ==
  ASSUME NEW frame \in Frame, NEW F \in SUBSET Fields, NEW flds, Sound(frame, flds)
  PROVE  Sound(Disturb(frame, F), flds)
BY DisturbFacts DEF Sound

-----------------------------------------------------------------------------
(* The initial state and the steps.                                        *)

LEMMA InitInvariant == Init => IInv
<1> SUFFICES ASSUME Init PROVE IInv  OBVIOUS
<1>1. DOMAIN fields = {} /\ DOMAIN assigned = {}  BY EmptyBindings DEF Init
<1>2. ObjectsOK  BY <1>1 DEF ObjectsOK
<1>3. frames \in Seq(Frame) /\ Depth = 1 /\ frames[1].this = Nobody
  BY StateIsFrame DEF Init, Depth
<1>4. QED  BY <1>2, <1>3, DepthAssumption DEF IInv, FramesOK

LEMMA CreateKeeps ==
  ASSUME IInv, NEW o \in Objects, Create(o)
  PROVE  IInv'
<1>1. PICK D \in {{}, Fields} : fields' = Bind(fields, o, [f \in D |-> Defaults[f]])
  BY DEF Create
<1> DEFINE new == [f \in D |-> Defaults[f]]
<1>2. new \in Bindings(Names)
  <2>1. D \in SUBSET Names /\ new \in [D -> Values]  BY StructAssumption
  <2>2. QED  BY <2>1, BindingsIntro
<1>3. /\ o \notin DOMAIN fields
      /\ DOMAIN fields' = DOMAIN fields \cup {o}
      /\ DOMAIN assigned' = DOMAIN assigned \cup {o}
      /\ fields'[o] = new
      /\ assigned'[o] = Empty
      /\ \A p \in DOMAIN fields : fields'[p] = fields[p]
      /\ \A p \in DOMAIN assigned : assigned'[p] = assigned[p]
  <2>1. /\ o \notin DOMAIN fields /\ o \notin DOMAIN assigned
        /\ fields' = Bind(fields, o, new)
        /\ assigned' = Bind(assigned, o, Empty)
    BY <1>1 DEF Create, IInv, ObjectsOK
  <2> HIDE DEF new
  <2>2. QED  BY <2>1 DEF Bind
<1>4. ObjectsOK'
  <2> SUFFICES ASSUME NEW p \in DOMAIN fields'
               PROVE  /\ fields'[p] \in Bindings(Names)
                      /\ assigned'[p] \in Bindings(Names)
                      /\ DOMAIN assigned'[p] \subseteq DOMAIN fields'[p]
                      /\ \A f \in DOMAIN assigned'[p] : fields'[p][f] = assigned'[p][f]
    BY <1>3 DEF IInv, ObjectsOK
  <2>1. CASE p = o  BY <2>1, <1>2, <1>3, EmptyBindings
  <2>2. CASE p # o  BY <2>2, <1>3 DEF IInv, ObjectsOK
  <2>3. QED  BY <2>1, <2>2
<1>5. FramesOK'
  <2>1. UNCHANGED frames  BY DEF Create
  <2>2. \A i \in 2..Depth : Sound(frames[i], fields)'
    BY <2>1, <1>3 DEF IInv, FramesOK, Sound, Held, Depth
  <2>3. QED  BY <2>1, <2>2 DEF IInv, FramesOK, Depth
<1>6. QED  BY <1>4, <1>5 DEF IInv

LEMMA AssignKeeps ==
  ASSUME IInv, Assign
  PROVE  IInv'
<1>1. PICK n \in Names, v \in Values :
        frames' = [frames EXCEPT
          ![Depth] = Changed(Top, Bind(Top.env, n, v), Top.disturbed \cup ({n} \cap Fields))]
  BY DEF Assign
<1> DEFINE env == Bind(Top.env, n, v)
           disturbed == Top.disturbed \cup ({n} \cap Fields)
           new == Changed(Top, env, disturbed)
<1>2. FramesOK  BY DEF IInv
<1>3. Top \in Frame /\ Depth \in DOMAIN frames  BY <1>2, FramesFacts
<1>4. env \in Bindings(Names) /\ disturbed \in SUBSET Fields
  BY <1>3, FrameFacts, BindFacts
<1>5. /\ new \in Frame /\ new.this = Top.this
      /\ new.env = env /\ new.disturbed = disturbed
  BY <1>3, <1>4, ChangedFacts
<1>6. ASSUME Depth > 1 PROVE Sound(new, fields)
  <2>1. Sound(Top, fields)  BY <1>6, <1>2, FramesFacts
  <2>2. \A f \in Fields \ disturbed : f \in DOMAIN Top.env \ {n} /\ f \in Fields \ Top.disturbed
    BY <2>1 DEF Sound
  <2>3. \A f \in Fields \ disturbed : env[f] = Top.env[f]
    BY <2>2 DEF Bind
  <2>4. Fields \subseteq DOMAIN env
    <3>1. DOMAIN env = DOMAIN Top.env \cup {n}  BY BindingFacts
    <3>2. QED  BY <2>1, <3>1 DEF Sound
  <2>5. QED  BY <2>1, <2>2, <2>3, <2>4, <1>5 DEF Sound
<1>7. UNCHANGED <<fields, assigned>>  BY DEF Assign
<1> HIDE DEF env, disturbed
<1>8. /\ frames' \in Seq(Frame)
      /\ Depth' = Depth
      /\ \A j \in 1..Depth : frames'[j] = IF j = Depth THEN new ELSE frames[j]
  <2>1. frames' = [frames EXCEPT ![Depth] = new]  BY <1>1 DEF env, disturbed
  <2> HIDE DEF new
  <2>2. QED  BY <2>1, <1>2, <1>5, FramesFacts, ExceptSeq DEF FramesOK, Depth
<1> HIDE DEF new
<1>9. FramesOK'
  <2>1. frames'[1].this = Nobody
    BY <1>2, <1>5, <1>8, FramesFacts DEF FramesOK
  <2>2. ASSUME NEW i \in 2..Depth PROVE Sound(frames'[i], fields)
    <3>1. i \in 1..Depth  BY <1>2, FramesFacts
    <3>2. CASE i = Depth  BY <3>1, <3>2, <1>2, <1>6, <1>8, FramesFacts
    <3>3. CASE i # Depth  BY <3>1, <3>3, <1>2, <1>8 DEF FramesOK
    <3>4. QED  BY <3>2, <3>3
  <2>3. QED  BY <1>2, <1>7, <1>8, <2>1, <2>2 DEF FramesOK, Sound, Held
<1>10. ObjectsOK'  BY <1>7 DEF IInv, ObjectsOK
<1>11. QED  BY <1>9, <1>10 DEF IInv

-----------------------------------------------------------------------------
(* Frames that a step changes together.                                    *)

LEMMA SeqIntro ==
  ASSUME NEW S, NEW n \in Nat, NEW s \in [1..n -> S]
  PROVE  s \in Seq(S) /\ Len(s) = n
<1>1. s \in Seq(S)  BY SeqDef
<1>2. QED  BY <1>1, LenProperties

LEMMA FramesIntro ==
  ASSUME NEW n \in 1..MaxDepth, frames' \in [1..n -> Frame],
         frames'[1].this = Nobody, \A i \in 2..n : Sound(frames'[i], fields')
  PROVE  FramesOK'
<1>1. n \in Nat  BY DepthAssumption
<1>2. frames' \in Seq(Frame) /\ Len(frames') = n  BY <1>1, SeqIntro
<1>3. QED  BY <1>2 DEF FramesOK, Depth

(* A sound frame outlasts a change of its object if the fields that change *)
(* become disturbed.                                                       *)
LEMMA SoundAfter ==
  ASSUME NEW frame, NEW frame2, NEW flds, NEW flds2, NEW G,
         Sound(frame, flds), frame2.this = frame.this, frame2.env = frame.env,
         frame.disturbed \cup G \subseteq frame2.disturbed,
         frame.this \in DOMAIN flds2,
         \A g \in Fields \ G : Held(flds2, frame.this, g) = Held(flds, frame.this, g)
  PROVE  Sound(frame2, flds2)
BY DEF Sound

LEMMA ElsewhereFacts ==
  ASSUME FramesOK, NEW o, NEW F \in SUBSET Fields
  PROVE  /\ Elsewhere(o, F) \in [1..Depth -> Frame]
         /\ \A i \in 1..Depth :
              Elsewhere(o, F)[i] = IF frames[i].this = o THEN Disturb(frames[i], F)
                                   ELSE frames[i]
BY FramesFacts, DisturbFacts DEF Elsewhere

(* The frames of other objects stay sound as they are, those of the object *)
(* once the fields that change are disturbed.                              *)
LEMMA ElsewhereIsSound ==
  ASSUME FramesOK, NEW o \in DOMAIN fields, NEW F \in SUBSET Fields, NEW flds,
         DOMAIN flds = DOMAIN fields,
         \A p \in DOMAIN fields \ {o} : flds[p] = fields[p],
         \A g \in Fields \ F : Held(flds, o, g) = Held(fields, o, g)
  PROVE  \A i \in 2..Depth : Sound(Elsewhere(o, F)[i], flds)
<1> SUFFICES ASSUME NEW i \in 2..Depth PROVE Sound(Elsewhere(o, F)[i], flds)
  OBVIOUS
<1>1. i \in 1..Depth /\ frames[i] \in Frame /\ Sound(frames[i], fields)
  BY FramesFacts DEF FramesOK
<1>2. CASE frames[i].this = o
  <2>1. Elsewhere(o, F)[i] = Disturb(frames[i], F)  BY <1>1, <1>2, ElsewhereFacts
  <2>2. /\ Disturb(frames[i], F).this = o /\ Disturb(frames[i], F).env = frames[i].env
        /\ Disturb(frames[i], F).disturbed = frames[i].disturbed \cup F
    BY <1>1, <1>2, DisturbFacts
  <2>3. QED  BY <1>1, <1>2, <2>1, <2>2, SoundAfter
<1>3. CASE frames[i].this # o
  <2>1. Elsewhere(o, F)[i] = frames[i]  BY <1>1, <1>3, ElsewhereFacts
  <2>2. frames[i].this \in DOMAIN fields \ {o}  BY <1>1, <1>3 DEF Sound
  <2>3. \A g \in Fields : Held(flds, frames[i].this, g) = Held(fields, frames[i].this, g)
    BY <2>2 DEF Held
  <2>4. QED  BY <1>1, <2>1, <2>2, <2>3 DEF Sound
<1>4. QED  BY <1>2, <1>3

-----------------------------------------------------------------------------
(* The steps that change an object.                                        *)

LEMMA MemberReadKeeps ==
  ASSUME IInv, NEW o \in Objects, NEW n \in Names, MemberRead(o, n)
  PROVE  IInv'
<1> DEFINE F == {f \in Fields \cap {n} : Defaults[f] # Zero}
           others == Elsewhere(o, F)
<1>1. FramesOK /\ ObjectsOK  BY DEF IInv
<1>2. /\ o \in DOMAIN fields /\ n \notin DOMAIN fields[o]
      /\ DOMAIN fields' = DOMAIN fields /\ UNCHANGED assigned
      /\ fields'[o] = Bind(fields[o], n, Zero)
      /\ \A p \in DOMAIN fields \ {o} : fields'[p] = fields[p]
      /\ frames' = others
  BY DEF MemberRead
<1>3. /\ fields'[o] \in Bindings(Names)
      /\ DOMAIN fields'[o] = DOMAIN fields[o] \cup {n}
      /\ fields'[o][n] = Zero
      /\ \A g \in DOMAIN fields[o] : fields'[o][g] = fields[o][g]
  <2>1. fields[o] \in Bindings(Names) /\ Zero \in Values
    BY <1>1, <1>2, StructAssumption DEF ObjectsOK
  <2>2. Bind(fields[o], n, Zero) \in Bindings(Names)  BY <2>1, BindFacts
  <2>3. \A g \in DOMAIN fields[o] : g \in DOMAIN fields[o] \ {n}  BY <1>2
  <2>4. /\ DOMAIN Bind(fields[o], n, Zero) = DOMAIN fields[o] \cup {n}
        /\ Bind(fields[o], n, Zero)[n] = Zero
        /\ \A g \in DOMAIN fields[o] : Bind(fields[o], n, Zero)[g] = fields[o][g]
    BY <2>3 DEF Bind
  <2>5. fields'[o] = Bind(fields[o], n, Zero)  BY <1>2
  <2>6. QED  BY <2>2, <2>4, <2>5
<1>4. ObjectsOK'
  <2> SUFFICES ASSUME NEW p \in DOMAIN fields'
               PROVE  /\ fields'[p] \in Bindings(Names)
                      /\ assigned'[p] \in Bindings(Names)
                      /\ DOMAIN assigned'[p] \subseteq DOMAIN fields'[p]
                      /\ \A g \in DOMAIN assigned'[p] : fields'[p][g] = assigned'[p][g]
    BY <1>1, <1>2 DEF ObjectsOK
  <2>1. CASE p = o  BY <2>1, <1>1, <1>2, <1>3 DEF ObjectsOK
  <2>2. CASE p # o  BY <2>2, <1>1, <1>2 DEF ObjectsOK
  <2>3. QED  BY <2>1, <2>2
<1>5. \A g \in Fields \ F : Held(fields', o, g) = Held(fields, o, g)
  <2> SUFFICES ASSUME NEW g \in Fields \ F
               PROVE  Held(fields', o, g) = Held(fields, o, g)
    OBVIOUS
  <2>1. CASE g = n  BY <2>1, <1>2, <1>3 DEF Held
  <2>2. CASE g # n  BY <2>2, <1>3 DEF Held
  <2>3. QED  BY <2>1, <2>2
<1>6. F \in SUBSET Fields  OBVIOUS
<1> HIDE DEF F
<1>7. /\ others \in [1..Depth -> Frame]
      /\ \A i \in 2..Depth : Sound(others[i], fields')
      /\ others[1].this = Nobody
  <2>1. others \in [1..Depth -> Frame]  BY <1>1, <1>6, ElsewhereFacts
  <2>2. \A i \in 2..Depth : Sound(others[i], fields')
    BY <1>1, <1>2, <1>5, <1>6, ElsewhereIsSound
  <2>3. others[1].this = Nobody
    <3>1. 1 \in 1..Depth  BY <1>1, FramesFacts
    <3>2. QED  BY <3>1, <1>1, <1>6, ElsewhereFacts, FramesFacts, DisturbFacts DEF FramesOK
  <2>4. QED  BY <2>1, <2>2, <2>3
<1> HIDE DEF others
<1>8. FramesOK'  BY <1>1, <1>2, <1>7, FramesIntro DEF FramesOK
<1>9. QED  BY <1>4, <1>8 DEF IInv

LEMMA FieldAssignKeeps ==
  ASSUME IInv, NEW o \in Objects, NEW n \in Names, NEW v \in Values, FieldAssign(o, n, v)
  PROVE  IInv'
<1>1. FramesOK /\ ObjectsOK  BY DEF IInv
<1>2. /\ o \in DOMAIN fields
      /\ DOMAIN fields' = DOMAIN fields /\ DOMAIN assigned' = DOMAIN assigned
      /\ fields'[o] = Bind(fields[o], n, v)
      /\ assigned'[o] = Bind(assigned[o], n, v)
      /\ \A p \in DOMAIN fields \ {o} : fields'[p] = fields[p] /\ assigned'[p] = assigned[p]
  BY <1>1 DEF FieldAssign, ObjectsOK
<1>3. /\ fields[o] \in Bindings(Names)
      /\ assigned[o] \in Bindings(Names)
      /\ DOMAIN assigned[o] \subseteq DOMAIN fields[o]
      /\ \A g \in DOMAIN assigned[o] : fields[o][g] = assigned[o][g]
  BY <1>1, <1>2 DEF ObjectsOK
<1>4. ObjectsOK'
  <2> SUFFICES ASSUME NEW p \in DOMAIN fields'
               PROVE  /\ fields'[p] \in Bindings(Names)
                      /\ assigned'[p] \in Bindings(Names)
                      /\ DOMAIN assigned'[p] \subseteq DOMAIN fields'[p]
                      /\ \A g \in DOMAIN assigned'[p] : fields'[p][g] = assigned'[p][g]
    BY <1>1, <1>2 DEF ObjectsOK
  <2>1. CASE p = o
    <3>1. fields'[o] \in Bindings(Names) /\ assigned'[o] \in Bindings(Names)
      <4>1. Bind(fields[o], n, v) \in Bindings(Names)  BY <1>3, BindFacts
      <4>2. Bind(assigned[o], n, v) \in Bindings(Names)  BY <1>3, BindFacts
      <4>3. QED  BY <1>2, <4>1, <4>2
    <3>2. /\ DOMAIN fields'[o] = DOMAIN fields[o] \cup {n}
          /\ DOMAIN assigned'[o] = DOMAIN assigned[o] \cup {n}
          /\ \A g \in DOMAIN assigned'[o] : fields'[o][g] = assigned'[o][g]
      BY <1>2, <1>3 DEF Bind
    <3>3. QED  BY <2>1, <3>1, <3>2, <1>3
  <2>2. CASE p # o  BY <2>2, <1>1, <1>2 DEF ObjectsOK
  <2>3. QED  BY <2>1, <2>2
<1>5. \A g \in Fields \ {n} : Held(fields', o, g) = Held(fields, o, g)
  BY <1>2 DEF Held, Bind
<1>6. Held(fields', o, n) = v  BY <1>2 DEF Held, Bind
<1> DEFINE env == IF n \in DOMAIN Top.env THEN Bind(Top.env, n, v) ELSE Top.env
           disturbed == IF o = Top.this THEN Top.disturbed \ {n}
                        ELSE Top.disturbed \cup (Fields \cap {n})
           new == Changed(Top, env, disturbed)
           others == Elsewhere(o, Fields \cap {n})
<1>7. Top \in Frame /\ Depth \in DOMAIN frames /\ DOMAIN frames = 1..Depth
  BY <1>1, FramesFacts
<1>8. env \in Bindings(Names) /\ disturbed \in SUBSET Fields
  <2>1. Top.env \in Bindings(Names) /\ Top.disturbed \in SUBSET Fields
    BY <1>7, FrameFacts
  <2>2. Bind(Top.env, n, v) \in Bindings(Names)
    BY <2>1, BindFacts, StructAssumption
  <2>3. QED  BY <2>1, <2>2
<1>9. /\ new \in Frame /\ new.this = Top.this
      /\ new.env = env /\ new.disturbed = disturbed
  <2> HIDE DEF env, disturbed
  <2>1. QED  BY <1>7, <1>8, ChangedFacts
<1>10. ASSUME Depth > 1 PROVE Sound(new, fields')
  <2>1. Sound(Top, fields)  BY <1>10, <1>1, FramesFacts
  <2>2. DOMAIN env = DOMAIN Top.env /\ (n \in Fields => env[n] = v)
    BY <2>1 DEF Sound, Bind
  <2>3. \A g \in Fields \ {n} : env[g] = Top.env[g]
    BY <2>1 DEF Sound, Bind
  <2>4. ASSUME NEW g \in Fields \ disturbed PROVE env[g] = Held(fields', Top.this, g)
    <3>1. CASE g = n
      <4>1. o = Top.this  BY <2>4, <3>1
      <4>2. QED  BY <3>1, <4>1, <2>2, <1>6
    <3>2. CASE g # n
      <4>1. g \in Fields \ Top.disturbed  BY <2>4, <3>2
      <4>2. env[g] = Held(fields, Top.this, g)  BY <4>1, <2>1, <2>3, <3>2 DEF Sound
      <4>3. Held(fields', Top.this, g) = Held(fields, Top.this, g)
        <5>1. CASE Top.this = o  BY <5>1, <1>5, <3>2, <4>1
        <5>2. CASE Top.this # o  BY <5>2, <1>2, <2>1 DEF Held, Sound
        <5>3. QED  BY <5>1, <5>2
      <4>4. QED  BY <4>2, <4>3
    <3>3. QED  BY <3>1, <3>2
  <2>5. QED  BY <2>1, <2>2, <2>4, <1>2, <1>9 DEF Sound
<1>11. frames' = [others EXCEPT ![Depth] = new]  BY DEF FieldAssign, Copied
<1> HIDE DEF new, others
<1>12. /\ others \in [1..Depth -> Frame]
       /\ \A i \in 2..Depth : Sound(others[i], fields')
       /\ others[1].this = frames[1].this
  <2>1. Fields \cap {n} \in SUBSET Fields  OBVIOUS
  <2>2. others \in [1..Depth -> Frame]  BY <1>1, <2>1, ElsewhereFacts DEF others
  <2>3. \A i \in 2..Depth : Sound(others[i], fields')
    BY <1>1, <1>2, <1>5, <2>1, ElsewhereIsSound DEF others
  <2>4. others[1].this = frames[1].this
    BY <1>1, <2>1, ElsewhereFacts, FramesFacts, DisturbFacts DEF others
  <2>5. QED  BY <2>2, <2>3, <2>4
<1>13. FramesOK'
  <2>1. Depth \in 1..MaxDepth /\ Depth \in 1..Depth  BY <1>1, FramesFacts DEF FramesOK
  <2>2. frames' \in [1..Depth -> Frame]  BY <1>9, <1>11, <1>12, <2>1
  <2>3. \A i \in 1..Depth : frames'[i] = IF i = Depth THEN new ELSE others[i]
    BY <1>11, <1>12
  <2>4. frames'[1].this = Nobody
    BY <1>1, <1>9, <1>12, <2>1, <2>3, FramesFacts DEF FramesOK
  <2>5. \A i \in 2..Depth : Sound(frames'[i], fields')
    BY <1>1, <1>10, <1>12, <2>3, FramesFacts
  <2>6. QED  BY <2>1, <2>2, <2>4, <2>5, FramesIntro
<1>14. QED  BY <1>4, <1>13 DEF IInv

LEMMA CallKeeps ==
  ASSUME IInv, NEW o \in Objects, NEW r \in Routines, Call(o, r)
  PROVE  IInv'
<1>1. FramesOK /\ ObjectsOK  BY DEF IInv
<1>2. PICK args \in [ParamsOf[r] -> Values] :
        frames' = Append(frames,
          [this |-> o, outputs |-> OutputsOf[r], env |-> Environment(o, r, args),
           disturbed |-> Fields \cap (ParamsOf[r] \cup PresetOf[r])])
  BY DEF Call
<1>3. /\ Depth < MaxDepth /\ o \in DOMAIN fields
      /\ UNCHANGED <<fields, assigned>>
  BY DEF Call
<1>4. fields[o] \in Bindings(Names)  BY <1>1, <1>3 DEF ObjectsOK
<1> DEFINE env == Environment(o, r, args)
           D == Fields \cup ParamsOf[r] \cup PresetOf[r]
           new == [this |-> o, outputs |-> OutputsOf[r], env |-> env,
                   disturbed |-> Fields \cap (ParamsOf[r] \cup PresetOf[r])]
<1>5. \A f \in Fields : FieldOf(o, f) \in Values
  BY <1>4, BindingsFacts, StructAssumption DEF FieldOf
<1>6. /\ ParamsOf[r] \subseteq Names /\ OutputsOf[r] \subseteq Names
      /\ PresetOf[r] \subseteq Names /\ D \in SUBSET Names
  BY StructAssumption
<1>7. env \in [D -> Values]
  BY <1>5, <1>6, StructAssumption DEF Environment
<1>8. env \in Bindings(Names)  BY <1>6, <1>7, BindingsIntro
<1>9. \A f \in Fields \ new.disturbed : env[f] = FieldOf(o, f)
  BY DEF Environment
<1>10. Fields \subseteq DOMAIN env  BY <1>7
<1> HIDE DEF env, D
<1>11. new \in Frame  BY <1>6, <1>8 DEF Frame
<1>12. Sound(new, fields)
  BY <1>3, <1>9, <1>10 DEF Sound, Held, FieldOf
<1>13. frames' = Append(frames, new)  BY <1>2 DEF env
<1> HIDE DEF new
<1>14. /\ frames' \in Seq(Frame) /\ Depth' = Depth + 1
       /\ \A i \in 1..Depth : frames'[i] = frames[i]
       /\ frames'[Depth + 1] = new
  BY <1>1, <1>11, <1>13, AppendProperties DEF FramesOK, Depth
<1>15. Depth \in 1..MaxDepth /\ Depth + 1 \in 1..MaxDepth
  BY <1>1, <1>3, DepthAssumption DEF FramesOK
<1>16. ASSUME NEW i \in 2..(Depth + 1) PROVE Sound(frames'[i], fields)
  <2>1. CASE i = Depth + 1  BY <2>1, <1>12, <1>14
  <2>2. CASE i # Depth + 1
    <3>1. i \in 2..Depth /\ i \in 1..Depth  BY <2>2, <1>15, DepthAssumption
    <3>2. QED  BY <3>1, <1>1, <1>14 DEF FramesOK
  <2>3. QED  BY <2>1, <2>2
<1>17. frames'[1].this = Nobody
  BY <1>1, <1>14, <1>15, DepthAssumption DEF FramesOK
<1>18. FramesOK'
  BY <1>3, <1>14, <1>15, <1>16, <1>17 DEF FramesOK, Sound, Held
<1>19. ObjectsOK'  BY <1>1, <1>3 DEF ObjectsOK
<1>20. QED  BY <1>18, <1>19 DEF IInv

LEMMA ReturnKeeps ==
  ASSUME IInv, Return
  PROVE  IInv'
<1>1. FramesOK /\ ObjectsOK  BY DEF IInv
<1> DEFINE o == Top.this
           F == Fields \ DOMAIN fields[o]
           others == Elsewhere(o, F)
<1>2. /\ Depth > 1 /\ Depth \in 1..MaxDepth
      /\ Top \in Frame /\ Sound(Top, fields)
  BY <1>1, FramesFacts DEF Return, FramesOK
<1>3. o \in DOMAIN fields  BY <1>2 DEF Sound
<1>4. /\ fields[o] \in Bindings(Names)
      /\ assigned[o] \in Bindings(Names)
      /\ DOMAIN assigned[o] \subseteq DOMAIN fields[o]
      /\ \A g \in DOMAIN assigned[o] : fields[o][g] = assigned[o][g]
  BY <1>1, <1>3 DEF ObjectsOK
<1>5. Synced(o) \in [DOMAIN fields[o] \cup Fields -> Values]
  <2>1. \A f \in DOMAIN fields[o] : fields[o][f] \in Values  BY <1>4, BindingsFacts
  <2>2. Top.env \in Bindings(Names)  BY <1>2, FrameFacts
  <2>3. \A f \in Fields : Top.env[f] \in Values  BY <1>2, <2>2, BindingsFacts DEF Sound
  <2>4. QED  BY <2>1, <2>3 DEF Synced
<1>6. \A f \in DOMAIN fields[o] : Synced(o)[f] = fields[o][f]
  BY <1>4, BindingsFacts DEF Synced
<1>7. /\ DOMAIN fields' = DOMAIN fields /\ UNCHANGED assigned
      /\ fields'[o] = Synced(o)
      /\ \A p \in DOMAIN fields \ {o} : fields'[p] = fields[p]
  BY <1>3 DEF Return
<1>8. Synced(o) \in Bindings(Names)
  <2>1. DOMAIN fields[o] \cup Fields \in SUBSET Names  BY <1>4, BindingsFacts, StructAssumption
  <2>2. QED  BY <1>5, <2>1, BindingsIntro
<1>10. frames' = IF Top.outputs \subseteq DOMAIN Top.env
                   THEN SubSeq(others, 1, Depth - 1) ELSE <<State>>
  BY DEF Return, Ends
<1> HIDE DEF o
<1>11. ObjectsOK'
  <2> SUFFICES ASSUME NEW p \in DOMAIN fields'
               PROVE  /\ fields'[p] \in Bindings(Names)
                      /\ assigned'[p] \in Bindings(Names)
                      /\ DOMAIN assigned'[p] \subseteq DOMAIN fields'[p]
                      /\ \A g \in DOMAIN assigned'[p] : fields'[p][g] = assigned'[p][g]
    BY <1>1, <1>7 DEF ObjectsOK
  <2>1. CASE p = o
    <3>1. DOMAIN fields'[o] = DOMAIN fields[o] \cup Fields  BY <1>5, <1>7
    <3>2. \A g \in DOMAIN assigned[o] : fields'[o][g] = assigned[o][g]
      BY <1>4, <1>6, <1>7
    <3>3. QED  BY <2>1, <3>1, <3>2, <1>4, <1>7, <1>8
  <2>2. CASE p # o  BY <2>2, <1>1, <1>7 DEF ObjectsOK
  <2>3. QED  BY <2>1, <2>2
<1>12. \A g \in Fields \ F : Held(fields', o, g) = Held(fields, o, g)
  BY <1>5, <1>6, <1>7 DEF Held
<1>13. F \in SUBSET Fields  OBVIOUS
<1> HIDE DEF F
<1>14. /\ others \in [1..Depth -> Frame]
       /\ \A i \in 2..Depth : Sound(others[i], fields')
       /\ others[1].this = Nobody
  <2>1. others \in [1..Depth -> Frame]  BY <1>1, <1>13, ElsewhereFacts
  <2>2. \A i \in 2..Depth : Sound(others[i], fields')
    BY <1>1, <1>3, <1>7, <1>12, <1>13, ElsewhereIsSound
  <2>3. others[1].this = Nobody
    BY <1>1, <1>2, <1>13, ElsewhereFacts, FramesFacts, DisturbFacts DEF FramesOK
  <2>4. QED  BY <2>1, <2>2, <2>3
<1> HIDE DEF others
<1>15. FramesOK'
  <2>1. CASE Top.outputs \subseteq DOMAIN Top.env
    <3>1. others \in Seq(Frame) /\ Len(others) = Depth
      BY <1>1, <1>14, FramesFacts, SeqIntro
    <3>2. frames' = SubSeq(others, 1, Depth - 1)  BY <2>1, <1>10
    <3>3. Depth \in Nat /\ Depth - 1 \in 1..MaxDepth /\ Depth - 1 \in 1..Depth
      BY <1>2, DepthAssumption
    <3>4. /\ frames' \in [1..(Depth - 1) -> Frame]
          /\ \A i \in 1..(Depth - 1) : frames'[i] = others[i]
      <4>1. \A i \in 1..(Depth - 1) : others[i] \in Frame  BY <3>3, <1>14
      <4>2. /\ SubSeq(others, 1, Depth - 1) \in Seq(Frame)
            /\ Len(SubSeq(others, 1, Depth - 1)) = Depth - 1
            /\ \A i \in 1..(Depth - 1) : SubSeq(others, 1, Depth - 1)[i] = others[i]
        BY <3>3, <4>1, SubSeqProperties
      <4>3. SubSeq(others, 1, Depth - 1) \in [1..(Depth - 1) -> Frame]
        BY <4>2, LenProperties
      <4>4. QED  BY <3>2, <4>2, <4>3
    <3>5. frames'[1].this = Nobody  BY <3>3, <3>4, <1>14
    <3>6. \A i \in 2..(Depth - 1) : Sound(frames'[i], fields')
      BY <3>3, <3>4, <1>14
    <3>7. QED  BY <3>3, <3>4, <3>5, <3>6, FramesIntro
  <2>2. CASE ~(Top.outputs \subseteq DOMAIN Top.env)
    BY <2>2, <1>10, BeginsAnew
  <2>3. QED  BY <2>1, <2>2
<1>16. QED  BY <1>11, <1>15 DEF IInv

LEMMA ThrowKeeps ==
  ASSUME IInv, Throw
  PROVE  IInv'
<1>1. FramesOK'  BY BeginsAnew DEF Throw
<1>2. ObjectsOK'  BY DEF IInv, ObjectsOK, Throw
<1>3. QED  BY <1>1, <1>2 DEF IInv

LEMMA StepKeeps == IInv /\ [Next]_vars => IInv'
<1> SUFFICES ASSUME IInv, [Next]_vars PROVE IInv'  OBVIOUS
<1>1. ASSUME NEW o \in Objects, Create(o) PROVE IInv'  BY <1>1, CreateKeeps
<1>2. ASSUME NEW o \in Objects, NEW n \in Names, NEW v \in Values, FieldAssign(o, n, v)
      PROVE  IInv'
  BY <1>2, FieldAssignKeeps
<1>3. ASSUME NEW o \in Objects, NEW r \in Routines, Call(o, r) PROVE IInv'
  BY <1>3, CallKeeps
<1>4. CASE Assign  BY <1>4, AssignKeeps
<1>5. CASE Return  BY <1>5, ReturnKeeps
<1>6. CASE Throw  BY <1>6, ThrowKeeps
<1>7. ASSUME NEW o \in Objects, NEW n \in Names, MemberRead(o, n) PROVE IInv'
  BY <1>7, MemberReadKeeps
<1>8. CASE UNCHANGED vars
  BY <1>8 DEF vars, IInv, ObjectsOK, FramesOK, Sound, Held, Depth
<1>9. QED  BY <1>1, <1>2, <1>3, <1>4, <1>5, <1>6, <1>7, <1>8 DEF Next

LEMMA Invariance == Spec => []IInv
BY InitInvariant, StepKeeps, PTL DEF Spec

-----------------------------------------------------------------------------
(* Theorems.                                                               *)

(* Whatever members a program names, those that no struct declares among   *)
(* them, each statement of a call finds every field of its object under    *)
(* its bare name (exec_struct_routine), and the calls nest.                *)
THEOREM TypeCorrect == Spec => []TypeOK
<1>1. IInv => TypeOK  BY InvariantFacts
<1>2. QED  BY <1>1, Invariance, PTL

(* However deep the calls on an object nest, no return writes an old copy  *)
(* of a field over what was assigned to it since (exec_struct_routine).    *)
THEOREM UpdatesKept == Spec => []UpdatesAreKept
<1>1. IInv => UpdatesAreKept  BY InvariantFacts
<1>2. QED  BY <1>1, Invariance, PTL

(* The copy that a routine reads is what its object holds, except for the  *)
(* fields that it shadows, that a nested call changed, or that a read of   *)
(* the member put into the object with another value (get_field).          *)
THEOREM OwnWritesSeen == Spec => []OwnWritesAreSeen
<1>1. IInv => OwnWritesAreSeen  BY InvariantFacts
<1>2. QED  BY <1>1, Invariance, PTL

-----------------------------------------------------------------------------
(* Routines without a body, whatever the tables of wrappers: if the        *)
(* wrappers of the routines a program calls agree with their declarations  *)
(* one by one, then no sequence of calls goes wrong.                       *)

\* A call of a routine that agrees, with arguments as declared, is answered.
LEMMA ProperArguments ==
    ASSUME NEW r \in Usable, Agrees(r),
           NEW args, DOMAIN args = DOMAIN r.params,
           \A k \in DOMAIN args : \E t \in r.params[k].declared : args[k] = Proper(t)
    PROVE  Outcome(r, args) = "ok"
<1>1. ASSUME NEW k \in DOMAIN args
      PROVE  /\ Cast(r.params[k], args[k].label) # Refused
             /\ Is(args[k].native, Cast(r.params[k], args[k].label))
  <2>1. PICK t \in r.params[k].declared : args[k] = Proper(t)
    OBVIOUS
  <2>2. args[k].label = LabelOf(t) /\ args[k].native = NativeOf(t)
    BY <2>1 DEF Proper
  <2>3. QED
    BY <2>2 DEF Agrees
<1>2. r.result.native # Refused
  BY DEF Agrees
<1>3. QED
  BY <1>1, <1>2 DEF Outcome

LEMMA ArgumentsProper ==
    ASSUME NEW r \in Usable
    PROVE  /\ DOMAIN Arguments(r) = DOMAIN r.params
           /\ \A k \in DOMAIN r.params :
                  \E t \in r.params[k].declared : Arguments(r)[k] = Proper(t)
<1>1. \A k \in DOMAIN r.params : r.params[k].declared # {}
  BY RoutinesAssumption DEF Usable
<1>2. QED
  BY <1>1 DEF Arguments

\* The induction hypothesis and what a step keeps of it.
Safe == HeldAsDeclared /\ NothingMiscast /\ EveryCallAnswered

LEMMA FinishSafe ==
    ASSUME Safe, NEW r \in Usable, Agrees(r),
           NEW args, DOMAIN args = DOMAIN r.params,
           \A k \in DOMAIN args : \E t \in r.params[k].declared : args[k] = Proper(t),
           Finish(r, args)
    PROVE  Safe'
<1>1. Outcome(r, args) = "ok"
  BY ProperArguments
<1>2. outcome' = "ok" /\ held' = r.result
  BY <1>1 DEF Finish
<1>3. held' = Proper(held'.declared)
  BY <1>2 DEF Agrees
<1>4. QED
  BY <1>2, <1>3 DEF Safe, HeldAsDeclared, NothingMiscast, EveryCallAnswered

LEMMA InitSafe ==
    ASSUME NamesApart, ForeignInit
    PROVE  Safe
<1>1. LabelOf("nothing") = "nothing" /\ NativeOf("nothing") = "nothing"
  BY DEF NamesApart, LabelOf, NativeOf
<1>2. QED
  BY <1>1 DEF ForeignInit, Nothing, Proper, Safe, HeldAsDeclared, NothingMiscast, EveryCallAnswered

LEMMA MakeSafe ==
    ASSUME TablesAgree, Safe, NEW r \in Usable, Make(r)
    PROVE  Safe'
<1>1. Agrees(r)
  BY DEF TablesAgree
<1>2. CASE Finish(r, Arguments(r))
  BY <1>1, <1>2, ArgumentsProper, FinishSafe
<1>3. ASSUME NEW k \in DOMAIN r.params, NEW t \in r.params[k].declared,
             Finish(r, [Arguments(r) EXCEPT ![k] = Proper(t)])
      PROVE  Safe'
  <2> DEFINE args == [Arguments(r) EXCEPT ![k] = Proper(t)]
  <2>1. DOMAIN args = DOMAIN r.params
    BY ArgumentsProper
  <2>2. \A j \in DOMAIN args : \E d \in r.params[j].declared : args[j] = Proper(d)
    BY ArgumentsProper DEF Arguments
  <2>3. QED
    BY <1>1, <1>3, <2>1, <2>2, FinishSafe
<1>4. QED
  BY <1>2, <1>3 DEF Make

\* The value the program follows is as good an argument as any.
LEMMA HeldSafe ==
    ASSUME TablesAgree, Safe, NEW r \in Usable, NEW k \in DOMAIN r.params,
           held.declared \in r.params[k].declared,
           Finish(r, [Arguments(r) EXCEPT ![k] = held])
    PROVE  Safe'
<1> DEFINE args == [Arguments(r) EXCEPT ![k] = held]
<1>1. DOMAIN args = DOMAIN r.params
  BY ArgumentsProper
<1>2. held = Proper(held.declared)
  BY DEF Safe, HeldAsDeclared
<1>3. \A j \in DOMAIN args : \E d \in r.params[j].declared : args[j] = Proper(d)
  BY <1>2, ArgumentsProper DEF Arguments
<1>4. QED
  BY <1>1, <1>3, FinishSafe DEF TablesAgree

LEMMA CallSafe ==
    ASSUME TablesAgree, Safe, NEW meant \in Usable, CallForeign(meant)
    PROVE  Safe'
<1> DEFINE found == {r \in Wrapped : Called(r) = <<held.label, meant.name>>}
<1>1. "this" \in DOMAIN meant.params /\ held.declared \in meant.params["this"].declared
  BY DEF CallForeign
<1>2. held.label = meant.type
  <2>1. held.label = LabelOf(held.declared)
    BY DEF Safe, HeldAsDeclared, Proper
  <2>2. QED
    BY <1>1, <2>1 DEF TablesAgree, Agrees
<1>3. meant \in found
  BY <1>2 DEF Called, Usable
<1>4. \A r \in found : r = meant
  <2> SUFFICES ASSUME NEW r \in found PROVE r = meant
    OBVIOUS
  <2>1. r.type = meant.type /\ r.name = meant.name
    BY <1>2 DEF Called
  <2>2. QED
    BY <1>1, <2>1, RoutinesAssumption DEF Usable
<1>5. found # {} /\ (CHOOSE r \in found : TRUE) = meant
  BY <1>3, <1>4
<1>6. Finish(meant, [Arguments(meant) EXCEPT !["this"] = held])
  BY <1>1, <1>5 DEF CallForeign
<1>7. QED
  BY <1>1, <1>6, HeldSafe

LEMMA TakeSafe ==
    ASSUME NamesApart, Safe, Take
    PROVE  Safe'
<1>1. PICK t \in Elements, e \in Elements :
          /\ held.declared \in {ArrayOf(t), AxesOf(t)}
          /\ held.native = ArrayOf(e)
          /\ held' = [declared |-> t, label |-> LabelOf(e), native |-> NativeOf(e)]
          /\ outcome' = "ok"
  BY DEF Take
<1>2. held.native = held.declared
  <2>1. held.native = NativeOf(held.declared)
    BY DEF Safe, HeldAsDeclared, Proper
  <2>2. ArrayOf(t) \in Arrays
    BY DEF Arrays
  <2>3. held.declared \notin {"Instrument", "Error"}
    BY <1>1, <2>2 DEF NamesApart
  <2>4. QED
    BY <2>1, <2>3 DEF NativeOf
<1>3. t = e
  <2>1. ArrayOf(e) \in Arrays
    BY DEF Arrays
  <2>2. held.declared = ArrayOf(t)
    BY <1>1, <1>2, <2>1 DEF NamesApart
  <2>3. QED
    BY <1>1, <1>2, <2>2 DEF NamesApart
<1>4. QED
  BY <1>1, <1>3 DEF Safe, HeldAsDeclared, Proper, NothingMiscast, EveryCallAnswered

LEMMA PutSafe ==
    ASSUME NamesApart, Safe, Put
    PROVE  Safe'
<1> DEFINE t == held.declared
<1>1. /\ t \in Elements
      /\ held' = [declared |-> ArrayOf(t), label |-> "Array", native |-> ArrayOf(held.native)]
      /\ outcome' = "ok"
  BY DEF Put
<1>2. held.native = t
  <2>1. held.native = NativeOf(t)
    BY DEF Safe, HeldAsDeclared, Proper
  <2>2. t \notin {"Instrument", "Error"}
    BY <1>1 DEF Elements
  <2>3. QED
    BY <2>1, <2>2 DEF NativeOf
<1>3. LabelOf(ArrayOf(t)) = "Array" /\ NativeOf(ArrayOf(t)) = ArrayOf(t)
  <2>1. ArrayOf(t) \in Arrays
    BY <1>1 DEF Arrays
  <2>2. /\ ArrayOf(t) \notin {"Instrument", "Error"}
        /\ ArrayOf(t) \notin FalStructs
        /\ ArrayOf(t) # "Instrument" /\ ArrayOf(t) # "Error"
    BY <2>1 DEF NamesApart
  <2>3. \A a \in Arrays : a # "Instrument" /\ a # "Error" /\ a \notin FalStructs
                          => LabelOf(a) = "Array"
    BY Zenon DEF LabelOf
  <2>4. LabelOf(ArrayOf(t)) = "Array"
    BY <2>1, <2>2, <2>3
  <2>5. NativeOf(ArrayOf(t)) = ArrayOf(t)
    BY <2>2 DEF NativeOf
  <2>6. QED
    BY <2>4, <2>5
<1>4. QED
  BY <1>1, <1>2, <1>3 DEF Safe, HeldAsDeclared, Proper, NothingMiscast, EveryCallAnswered

LEMMA NextSafe ==
    ASSUME TablesAgree, NamesApart, Safe, [ForeignNext]_foreignVars
    PROVE  Safe'
<1>1. ASSUME NEW r \in Usable, Make(r) \/ Pass(r) \/ CallForeign(r)
      PROVE  Safe'
  BY <1>1, MakeSafe, HeldSafe, CallSafe DEF Pass
<1>2. CASE Take
  BY <1>2, TakeSafe
<1>3. CASE Put
  BY <1>3, PutSafe
<1>4. CASE UNCHANGED foreignVars
  BY <1>4 DEF foreignVars, Safe, HeldAsDeclared, NothingMiscast, EveryCallAnswered
<1>5. QED
  BY <1>1, <1>2, <1>3, <1>4 DEF ForeignNext

LEMMA SafeAlways ==
    ASSUME TablesAgree, NamesApart
    PROVE  ForeignSpec => []Safe
<1>1. ForeignInit => Safe
  BY InitSafe
<1>2. Safe /\ [ForeignNext]_foreignVars => Safe'
  BY NextSafe
<1>3. QED
  BY <1>1, <1>2, PTL DEF ForeignSpec

\* The casts of get_opaque are right if each table row is.
THEOREM NeverMiscast ==
    ASSUME TablesAgree, NamesApart
    PROVE  ForeignSpec => []NothingMiscast
<1>1. Safe => NothingMiscast
  BY DEF Safe
<1>2. QED
  BY <1>1, SafeAlways, PTL

\* exec_struct_routine finds the wrapper of every call, and it does not throw.
THEOREM CallsAnswered ==
    ASSUME TablesAgree, NamesApart
    PROVE  ForeignSpec => []EveryCallAnswered
<1>1. Safe => EveryCallAnswered
  BY DEF Safe
<1>2. QED
  BY <1>1, SafeAlways, PTL

\* A native handle keeps the type its declaration names.
THEOREM HandlesKeepType ==
    ASSUME TablesAgree, NamesApart
    PROVE  ForeignSpec => []HeldAsDeclared
<1>1. Safe => HeldAsDeclared
  BY DEF Safe
<1>2. QED
  BY <1>1, SafeAlways, PTL
=============================================================================
