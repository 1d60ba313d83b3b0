---------------------------- MODULE ForeignCalls ----------------------------
(* A program that calls struct routines implemented in C++.               *)
(*                                                                        *)
(* The interpreter knows a native object by its label only: it finds the  *)
(* routine by it, and packs the parameters by it.  The wrapper trusts the *)
(* types the .fal file declares, and casts.  The program follows one      *)
(* value, held, from call to call: it makes it, calls routines on it,     *)
(* passes it to others, and takes it out of and puts it into arrays.  All *)
(* the other arguments are values as they should be.                      *)
EXTENDS WrapperTable

CONSTANTS
    Wrapped,   \* the rows of the wrapped routines
    Avoided     \* <<type, name>> of the routines the program never calls

\* Every parameter has a type, and the exported symbol of a method, made of
\* the names of its struct and of itself, is there once.
ASSUME RoutinesAssumption ==
    \A r \in Wrapped :
        /\ \A k \in DOMAIN r.params : r.params[k].declared # {}
        /\ \A s \in Wrapped :
               "this" \in DOMAIN r.params /\ r.type = s.type /\ r.name = s.name => r = s

VARIABLES
    held,       \* the value the program follows, or Nothing
    last,       \* <<type, name>> of the last call
    outcome     \* of the last call

foreignVars == <<held, last, outcome>>

Nothing == [declared |-> "nothing", label |-> "nothing", native |-> "nothing"]

Called(r) == <<r.type, r.name>>
Usable == {r \in Wrapped : Called(r) \notin Avoided}

-----------------------------------------------------------------------------
(* Reading a parameter. *)

\* The classes of the C++ library that the wrappers cast to a base.  The base
\* is taken to lie at the address of the object.
Derived ==
    {<<"ControlArray", "FArray">>, <<"MeasuredArray", "FArray">>,
     <<"ControlArray1D", "ControlArray">>, <<"MeasuredArray1D", "MeasuredArray">>}

Is(native, cast) ==
    \/ cast \in {native, Anything}
    \/ <<native, cast>> \in Derived
    \/ cast = "ArrayValue" /\ native \in Arrays

\* The type a parameter is read as: what the wrapper does with the label.
\* get_opaque finds no object under the tag of a primitive or of nil.
Cast(p, label) ==
    IF label \in DOMAIN p.told THEN p.told[label]
    ELSE IF label \in Primitives \cup {"nil"} THEN Refused
    ELSE p.otherwise

\* A wrapper that throws has not cast anything yet.
Outcome(r, args) ==
    LET cast(k) == Cast(r.params[k], args[k].label) IN
    CASE r.result.native = Refused \/ \E k \in DOMAIN args : cast(k) = Refused -> "refused"
      [] \E k \in DOMAIN args : cast(k) # Refused /\ ~Is(args[k].native, cast(k)) -> "wild"
      [] OTHER -> "ok"

\* Arguments of declared types.
Arguments(r) == [k \in DOMAIN r.params |-> Proper(CHOOSE t \in r.params[k].declared : TRUE)]

Finish(r, args) ==
    /\ outcome' = Outcome(r, args)
    /\ held' = IF outcome' = "ok" THEN r.result ELSE held
    /\ last' = Called(r)

-----------------------------------------------------------------------------
ForeignInit == held = Nothing /\ last = <<>> /\ outcome = "ok"

\* T x = T.New(...), or a call on another object: every argument is as
\* declared, one of them of any of the declared types.
Make(r) ==
    \/ Finish(r, Arguments(r))
    \/ \E k \in DOMAIN r.params : \E t \in r.params[k].declared :
           Finish(r, [Arguments(r) EXCEPT ![k] = Proper(t)])

\* f(..., held, ...)
Pass(r) ==
    \E k \in DOMAIN r.params :
        /\ held.declared \in r.params[k].declared
        /\ Finish(r, [Arguments(r) EXCEPT ![k] = held])

\* Fault: a routine is found by its name, whatever the struct.
CallByName(meant) ==
    /\ "this" \in DOMAIN meant.params
    /\ held.declared \in meant.params["this"].declared
    /\ \E r \in Usable :
           /\ r.name = meant.name /\ "this" \in DOMAIN r.params
           /\ Finish(r, [Arguments(r) EXCEPT !["this"] = held])

\* held.Routine(...): the program means a routine of the declared type, the
\* interpreter looks for one of that name in the struct of the label.
CallForeign(meant) ==
    /\ "this" \in DOMAIN meant.params
    /\ held.declared \in meant.params["this"].declared
    /\ LET found == {r \in Wrapped : Called(r) = <<held.label, meant.name>>}
           r == CHOOSE r \in found : TRUE
       IN IF found = {} \/ "this" \notin DOMAIN r.params
          THEN /\ outcome' = "unknown"
               /\ last' = Called(meant)
               /\ UNCHANGED held
          ELSE Finish(r, [Arguments(r) EXCEPT !["this"] = held])

\* Fault: the element comes back without its type_name.
TakeUnnamed ==
    \E t, e \in Elements :
        /\ held.declared \in {ArrayOf(t), AxesOf(t)}
        /\ held.native = ArrayOf(e)
        /\ held' = [declared |-> t, label |-> "StructInstance", native |-> NativeOf(e)]
        /\ last' = <<"Array", "GetIndex">>
        /\ outcome' = "ok"

\* held[i], held.GetIndex(i), held.PopBack(): the declared element type, and
\* the element that is there.
Take ==
    \E t, e \in Elements :
        /\ held.declared \in {ArrayOf(t), AxesOf(t)}
        /\ held.native = ArrayOf(e)
        /\ held' = [declared |-> t, label |-> LabelOf(e), native |-> NativeOf(e)]
        /\ last' = <<"Array", "GetIndex">>
        /\ outcome' = "ok"

\* Fault: the new array is a plain ArrayValue.
PutUnlabelled ==
    /\ held.declared \in Elements
    /\ held.native \in Elements
    /\ held.label = LabelOf(held.native)
    /\ held' = [declared |-> ArrayOf(held.declared), label |-> "ArrayValue",
                native |-> ArrayOf(held.native)]
    /\ last' = <<"Array", "PushBack">>
    /\ outcome' = "ok"

\* A new array with held as its element.
Put ==
    /\ held.declared \in Elements
    /\ held.native \in Elements
    /\ held.label = LabelOf(held.native)
    /\ held' = [declared |-> ArrayOf(held.declared), label |-> "Array",
                native |-> ArrayOf(held.native)]
    /\ last' = <<"Array", "PushBack">>
    /\ outcome' = "ok"

ForeignNext ==
    \/ \E r \in Usable : Make(r) \/ Pass(r) \/ CallForeign(r)
    \/ Take
    \/ Put

ForeignSpec == ForeignInit /\ [][ForeignNext]_foreignVars

-----------------------------------------------------------------------------
(* Properties. *)

\* What a table owes: whatever the .fal file declares is cast to what it is,
\* a receiver is found under its label, and a result is what is declared.
Agrees(r) ==
    /\ r.result = Proper(r.result.declared)
    /\ r.result.native # Refused
    /\ \A k \in DOMAIN r.params : \A t \in r.params[k].declared :
           LET cast == Cast(r.params[k], LabelOf(t)) IN
           cast # Refused /\ Is(NativeOf(t), cast)
    /\ "this" \in DOMAIN r.params =>
           \A t \in r.params["this"].declared : LabelOf(t) = r.type

\* What the properties rest on: every routine the program calls has a wrapper
\* that agrees with its .fal declaration.
TablesAgree == \A r \in Usable : Agrees(r)

\* No sequence of calls makes a wrapper cast a native handle, with
\* get_opaque or static_pointer_cast, to a type the object does not have.
NothingMiscast == outcome # "wild"

\* A call whose arguments have the declared types is neither refused by the
\* wrapper nor unknown to the interpreter.
EveryCallAnswered == outcome \notin {"refused", "unknown"}

\* The value a program holds carries the label and the native object of the
\* type its declaration names, through results, arrays and their elements.
HeldAsDeclared == held = Proper(held.declared)
=============================================================================
