---------------------------- MODULE WrapperTable ----------------------------
(* The words in which the tables of wrapped struct routines are written.   *)
(*                                                                         *)
(* A struct routine without a body in a .fal file is implemented by the    *)
(* exported function STRUCT<Type><Routine> of a wrapper.  The .fal file     *)
(* declares the types of its parameters and of its result; the wrapper      *)
(* finds each parameter by its key, looks at the label it came with (the    *)
(* tag or the type_name of the entry) or at nothing at all, and casts the   *)
(* pointer.  A row records both sides:                                      *)
(*                                                                         *)
(*   declared   the types the .fal file accepts for the parameter           *)
(*   told       the labels the wrapper tells apart, and its cast for each   *)
(*   otherwise  its cast for any other object, or Refused when it throws    *)
(*                                                                         *)
(* A type is named by a string.  What the routine computes is left out.     *)
EXTENDS Sequences, TLC

Refused == "refused"     \* the wrapper, or the helper it calls, throws
Anything == "anything"   \* the parameter is not read, or stored as it is
Primitives == {"int", "float", "bool", "string"}
None == <<>>             \* no parameters; no labels told apart

ArrayOf(t) == "Array<" \o t \o ">"
AxesOf(t) == "Axes<" \o t \o ">"

\* The types whose arrays the wrapped routines accept or return.
Elements ==
    {"int", "float", "bool", "string", "AcquisitionContext", "Channel", "Connection",
     "CoupledLabelledDomain", "DeviceVoltageState", "DeviceVoltageStates", "FArray",
     "InstrumentPort", "InterpretationContext", "LabelledControlArray", "LabelledDomain",
     "LabelledMeasuredArray", "Map<string,bool>", "MeasurementContext",
     "PortTransform", "Waveform"}

Arrays == {ArrayOf(t) : t \in Elements}

\* Generic structs written in FAL: they have fields, and no native handle.
FalStructs ==
    {AxesOf(t) : t \in {"int", "float", "T", "Discretizer", "CoupledLabelledDomain",
                        "InstrumentPort", "Map<string,bool>", "MeasurementContext",
                        "ControlArray", "LabelledControlArray"}}
    \cup {"Map<string,bool>", "Map<Connection,float>", "Map<Connection,Quantity>",
          "Map<InterpretationContext,T>", "Map<InstrumentPort,PortTransform>"}

-----------------------------------------------------------------------------
(* Values as they cross the boundary. *)

\* The label pack_params gives a value of type t, and with it the name under
\* which the interpreter looks for its struct: the tag of a primitive, the
\* type_name of a native handle.  Instrument has no object behind it: its
\* wrappers hand out the name of the instrument as a string.  An Error that
\* reports nothing is nil.
LabelOf(t) ==
    CASE t = "Instrument" -> "string"
      [] t = "Error" -> "nil"
      [] t \in Arrays -> "Array"
      [] t \in FalStructs -> "StructInstance"
      [] OTHER -> t

NativeOf(t) == IF t \in {"Instrument", "Error"} THEN LabelOf(t) ELSE t

\* A value of type t as every routine should produce it.
Proper(t) == [declared |-> t, label |-> LabelOf(t), native |-> NativeOf(t)]

\* The names of generic types are told apart from each other and from the rest.
NamesApart ==
    /\ \A t, e \in Elements : ArrayOf(t) = ArrayOf(e) => t = e
    /\ Arrays \cap ({"nothing", "Instrument", "Error"} \cup FalStructs) = {}
    /\ "nothing" \notin FalStructs
    /\ \A t \in Elements : AxesOf(t) \notin Arrays \cup {"Instrument", "Error"}

-----------------------------------------------------------------------------
(* Parameters. *)

Param(declared, told, otherwise) ==
    [declared |-> declared, told |-> told, otherwise |-> otherwise]

\* unpack_params followed by std::get for a primitive.
Themselves(labels) == [t \in labels |-> t]

\* The usual way to read a t: std::get for a primitive, get_array_from_params
\* for an array, the StructInstance for a FAL struct, and get_opaque, which
\* casts whatever object is there, for the rest.
As(t) ==
    CASE LabelOf(t) \in Primitives -> Param({t}, Themselves({LabelOf(t)}), Refused)
      [] t \in Arrays -> Param({t}, "Array" :> t @@ "ArrayValue" :> t, Refused)
      [] OTHER -> Param({t}, None, t)

\* Two variant alternatives are tried.
Number == Param({"int", "float"}, Themselves({"int", "float"}), Refused)
FloatOrInt == [Number EXCEPT !.declared = {"float"}]

\* std::get<int64_t> on a parameter declared otherwise.
IntFor(t) == Param({t}, Themselves({"int"}), Refused)

\* std::get<std::shared_ptr<ArrayValue>>: no struct Array passes.
RawArray(t) == Param({ArrayOf(t)}, "ArrayValue" :> ArrayOf(t), Refused)

\* The operand of the arithmetic of arrays: numbers, the types of casts, and
\* an FArray when the label is none of them.
Operand(declared, casts) ==
    Param(declared \cup {"int", "float"}, casts @@ Themselves({"int", "float"}), "FArray")

\* An Axes read with get_array_from_params, which knows no StructInstance.
AxesAsArray(t) ==
    Param({AxesOf(t)}, "Array" :> ArrayOf(t) @@ "ArrayValue" :> ArrayOf(t), Refused)

\* extract_array_value: the array, or the arr_ field of the Axes.
AxesOrArray(t) ==
    Param({AxesOf(t)}, "Array" :> ArrayOf(t) @@ "StructInstance" :> AxesOf(t), Refused)

Ignored(t) == Param({t}, [p \in Primitives |-> Anything], Anything)

\* An element to store or to compare, of whatever type.
Stored == [Ignored("int") EXCEPT !.declared = Elements]

\* The receiver of a routine of Array<T>.
AnyArray == Param(Arrays, None, "ArrayValue")

-----------------------------------------------------------------------------
(* Results. *)

Gives(t) == Proper(t)
GivesAs(t, label, native) == [declared |-> t, label |-> label, native |-> native]
Raw(t) == GivesAs(ArrayOf(t), "ArrayValue", ArrayOf(t))   \* an ArrayValue, not a struct Array
Nil(t) == GivesAs(t, "nil", "nil")                        \* FALCON_TYPE_NIL
Throws(t) == GivesAs(t, Refused, Refused)                 \* not implemented

-----------------------------------------------------------------------------
(* Rows. *)

\* Routines called on the type: constructors.
Makers(type, names, params, result) ==
    {[type |-> type, name |-> n, params |-> params, result |-> result] : n \in names}

\* Routines called on an object, which they read with get_opaque under "this".
Methods(type, names, params, result) ==
    Makers(type, names, "this" :> As(type) @@ params, result)

Queries(type, names, t) == Methods(type, names, None, Gives(t))

Compares(type, names) == Methods(type, names, [other |-> As(type)], Gives("bool"))
=============================================================================
