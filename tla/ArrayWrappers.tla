--------------------------- MODULE ArrayWrappers ----------------------------
(* Wrapped routines of arrays of numbers, controlled, measured and labelled. *)
EXTENDS WrapperTable

\* farray-wrapper.cpp
FarrayRows ==
    Compares("FArray", {"Equal", "NotEqual"})
    \cup Methods("FArray", {"Times"}, [factor |-> Number], Gives("FArray"))
    \cup Methods("FArray", {"Divides"}, [divisor |-> Number], Gives("FArray"))
    \cup Methods("FArray", {"Power"}, [exponent |-> IntFor("float")],
        Gives("FArray"))
    \cup Methods("FArray", {"Add", "Subtract"},
        [other |-> Operand({"FArray"}, None)], Gives("FArray"))
    \cup Queries("FArray", {"Negate", "Abs"}, "FArray")
    \cup Queries("FArray", {"ToJSON"}, "string")

FarrayRows2 ==
    Makers("FArray", {"FromJSON"}, [json |-> As("string")], Gives("FArray"))
    \cup Makers("FArrayTestHelpers", {"NewFromFloats"},
        [values |-> As(ArrayOf("float"))], Gives("FArray"))

\* control-array-wrapper.cpp
ControlArrayRows ==
    Makers("ControlArray", {"New"}, [arr |-> As("FArray")],
        Gives("ControlArray"))
    \cup Methods("ControlArray", {"Add", "Minus"},
        [other |-> Operand({"ControlArray", "FArray"},
        Themselves({"ControlArray"}))], Gives("ControlArray"))
    \cup Queries("ControlArray", {"Negate", "Abs"}, "ControlArray")
    \cup Methods("ControlArray", {"Times"}, [factor |-> Number],
        Gives("ControlArray"))

ControlArrayRows2 ==
    Methods("ControlArray", {"Divides"}, [factor |-> Number],
        Gives("ControlArray"))
    \cup Methods("ControlArray", {"Power"}, [exponent |-> FloatOrInt],
        Gives("ControlArray"))
    \cup Queries("ControlArray", {"Min", "Max"}, "float")
    \cup Queries("ControlArray", {"PrincipleDimension"}, "int")
    \cup Queries("ControlArray", {"Alignment"}, "IncreasingAlignment")
    \cup Methods("ControlArray", {"Reshape"}, [shape |-> RawArray("int")],
        Gives("ControlArray"))
    \cup Methods("ControlArray", {"Flip"}, [axis |-> As("int")],
        Gives("ControlArray"))
    \cup Methods("ControlArray", {"Gradient"}, [axis |-> As("int")],
        Gives("FArray"))
    \cup Methods("ControlArray", {"FullGradient"}, None, Raw("FArray"))
    \cup Compares("ControlArray", {"Equal", "NotEqual"})
    \cup Makers("ControlArray", {"FromJSON"}, [json |-> As("string")],
        Gives("ControlArray"))
    \cup Queries("ControlArray", {"ToJSON"}, "string")

\* control-array-1D-wrapper.cpp
ControlArray1DRows ==
    Makers("ControlArray1D", {"New"}, [arr |-> As("FArray")],
        Gives("ControlArray1D"))
    \cup Methods("ControlArray1D", {"Add"},
        [other |-> Operand({"ControlArray", "FArray"}, "ControlArray" :>
        "ControlArray" @@ "ControlArray1D" :> "ControlArray")],
        Gives("ControlArray1D"))
    \cup Methods("ControlArray1D", {"Minus"},
        [other |-> Operand({"ControlArray1D", "FArray"},
        Themselves({"ControlArray1D"}))], Gives("ControlArray1D"))
    \cup Queries("ControlArray1D", {"Negate", "Abs"}, "ControlArray1D")
    \cup Methods("ControlArray1D", {"Times"}, [factor |-> Number],
        Gives("ControlArray1D"))

ControlArray1DRows2 ==
    Methods("ControlArray1D", {"Divides"}, [factor |-> Number],
        Gives("ControlArray1D"))
    \cup Methods("ControlArray1D", {"Power"}, [exponent |-> FloatOrInt],
        Gives("ControlArray1D"))
    \cup Queries("ControlArray1D", {"Min", "Max", "GetStart", "GetEnd",
        "GetDistance", "GetMean", "GetSTD"}, "float")
    \cup Queries("ControlArray1D", {"PrincipleDimension"}, "int")
    \cup Queries("ControlArray1D", {"Alignment"}, "IncreasingAlignment")
    \cup Queries("ControlArray1D", {"IsDecreasing", "IsIncreasing"}, "bool")
    \cup Queries("ControlArray1D", {"Reverse"}, "none")
    \cup Methods("ControlArray1D", {"GetClosestIndex"},
        [value |-> FloatOrInt], Gives("int"))
    \cup Methods("ControlArray1D", {"EvenDivisions"},
        [divisions |-> As("int")], Raw("FArray"))

ControlArray1DRows3 ==
    Methods("ControlArray1D", {"Reshape"}, [shape |-> RawArray("int")],
        Gives("ControlArray1D"))
    \cup Methods("ControlArray1D", {"Flip"}, [axis |-> As("int")],
        Gives("ControlArray1D"))
    \cup Methods("ControlArray1D", {"Gradient"}, [axis |-> As("int")],
        Gives("FArray"))
    \cup Methods("ControlArray1D", {"FullGradient"}, None, Raw("FArray"))
    \cup Compares("ControlArray1D", {"Equal", "NotEqual"})
    \cup Makers("ControlArray1D", {"FromJSON"}, [json |-> As("string")],
        Gives("ControlArray1D"))
    \cup Queries("ControlArray1D", {"ToJSON"}, "string")

\* increasing-alignment-wrapper.cpp
IncreasingAlignmentRows ==
    Makers("IncreasingAlignment", {"New"}, [alignment |-> As("bool")],
        Gives("IncreasingAlignment"))
    \cup Queries("IncreasingAlignment", {"Alignment"}, "bool")
    \cup Compares("IncreasingAlignment", {"Equal", "NotEqual"})
    \cup Queries("IncreasingAlignment", {"ToJSON"}, "string")
    \cup Makers("IncreasingAlignment", {"FromJSON"}, [json |-> As("string")],
        Gives("IncreasingAlignment"))

\* labelled-arrays-wrapper.cpp
LabelledArraysRows ==
    Makers("LabelledArrays", {"NewLabelledMeasuredArrays"},
        [arr |-> As(ArrayOf("LabelledMeasuredArray"))],
        Gives("LabelledArrays"))
    \cup Makers("LabelledArrays", {"NewLabelledControlArrays"},
        [arr |-> As(ArrayOf("LabelledControlArray"))],
        Gives("LabelledArrays"))
    \cup Queries("LabelledArrays", {"Arrays"}, "Array<T>")
    \cup Methods("LabelledArrays", {"Labels"}, None,
        Gives(ArrayOf("AcquisitionContext")))
    \cup Methods("LabelledArrays", {"IsControlArrays"}, None, Gives("bool"))

LabelledArraysRows2 ==
    Methods("LabelledArrays", {"IsMeasuredArrays"}, None, Gives("bool"))
    \cup Methods("LabelledArrays", {"Equal", "NotEqual"},
        [other |-> As("LabelledArrays")], Gives("bool"))
    \cup Methods("LabelledArrays", {"ToJSON"}, None, Gives("string"))
    \cup Makers("LabelledArrays", {"FromJSON"}, [json |-> As("string")],
        Gives("LabelledArrays"))

\* measured-array-wrapper.cpp
MeasuredArrayRows ==
    Makers("MeasuredArray", {"New"}, [arr |-> As("FArray")],
        Gives("MeasuredArray"))
    \cup Methods("MeasuredArray", {"Add", "Minus"},
        [other |-> Operand({"MeasuredArray", "FArray"},
        Themselves({"MeasuredArray"}))], Gives("MeasuredArray"))
    \cup Queries("MeasuredArray", {"Negate", "Abs"}, "MeasuredArray")
    \cup Methods("MeasuredArray", {"Times", "Divides"}, [factor |-> Number],
        Gives("MeasuredArray"))

MeasuredArrayRows2 ==
    Methods("MeasuredArray", {"Power"}, [exponent |-> FloatOrInt],
        Gives("MeasuredArray"))
    \cup Queries("MeasuredArray", {"Min", "Max"}, "float")
    \cup Methods("MeasuredArray", {"Reshape"}, [shape |-> RawArray("int")],
        Gives("MeasuredArray"))
    \cup Methods("MeasuredArray", {"Flip"}, [axis |-> As("int")],
        Gives("MeasuredArray"))
    \cup Methods("MeasuredArray", {"Gradient"}, [axis |-> As("int")],
        Gives("FArray"))
    \cup Methods("MeasuredArray", {"FullGradient"}, None, Raw("FArray"))
    \cup Methods("MeasuredArray", {"Equal", "NotEqual"},
        [other |-> As("FArray")], Gives("bool"))
    \cup Makers("MeasuredArray", {"FromJSON"}, [json |-> As("string")],
        Gives("FArray"))
    \cup Queries("MeasuredArray", {"ToJSON"}, "string")

\* measured-array-1D-wrapper.cpp
MeasuredArray1DRows ==
    Makers("MeasuredArray1D", {"New"}, [arr |-> As("FArray")],
        Gives("MeasuredArray1D"))
    \cup Methods("MeasuredArray1D", {"Add", "Minus"},
        [other |-> Operand({"MeasuredArray", "FArray"}, "MeasuredArray" :>
        "MeasuredArray" @@ "MeasuredArray1D" :> "MeasuredArray")],
        Gives("MeasuredArray1D"))
    \cup Queries("MeasuredArray1D", {"Negate", "Abs"}, "MeasuredArray1D")
    \cup Methods("MeasuredArray1D", {"Times", "Divides"}, [factor |-> Number],
        Gives("MeasuredArray1D"))

MeasuredArray1DRows2 ==
    Methods("MeasuredArray1D", {"Power"}, [exponent |-> FloatOrInt],
        Gives("MeasuredArray1D"))
    \cup Queries("MeasuredArray1D", {"Min", "Max", "GetStart", "GetEnd",
        "GetDistance", "GetMean", "GetSTD"}, "float")
    \cup Queries("MeasuredArray1D", {"IsDecreasing", "IsIncreasing"}, "bool")
    \cup Queries("MeasuredArray1D", {"Reverse"}, "none")
    \cup Methods("MeasuredArray1D", {"GetClosestIndex"},
        [value |-> FloatOrInt], Gives("int"))
    \cup Methods("MeasuredArray1D", {"EvenDivisions"},
        [divisions |-> As("int")], Raw("FArray"))
    \cup Methods("MeasuredArray1D", {"Reshape"}, [shape |-> RawArray("int")],
        Gives("MeasuredArray1D"))
    \cup Methods("MeasuredArray1D", {"Flip"}, [axis |-> As("int")],
        Gives("MeasuredArray1D"))

MeasuredArray1DRows3 ==
    Methods("MeasuredArray1D", {"Gradient"}, [axis |-> As("int")],
        Gives("FArray"))
    \cup Methods("MeasuredArray1D", {"FullGradient"}, None, Raw("FArray"))
    \cup Compares("MeasuredArray1D", {"Equal", "NotEqual"})
    \cup Makers("MeasuredArray1D", {"FromJSON"}, [json |-> As("string")],
        Gives("MeasuredArray1D"))
    \cup Queries("MeasuredArray1D", {"ToJSON"}, "string")

\* array-wrapper.cpp: one wrapper for Array<T>, whatever T is.  GetIndex and
\* PopBack, whose result depends on the array, are a step of ForeignCalls.
ArrayRows ==
    UNION {Makers("Array", {"New"}, None, Gives(a)) : a \in Arrays}
    \cup Makers("Array", {"Size"}, [this |-> AnyArray], Gives("int"))
    \cup Makers("Array", {"IsEmpty"}, [this |-> AnyArray], Gives("bool"))
    \cup Makers("Array", {"SetIndex", "Insert"},
        [this |-> AnyArray, index |-> As("int"), value |-> Stored], Gives("none"))
    \cup Makers("Array", {"PushBack"}, [this |-> AnyArray, value |-> Stored], Gives("none"))
    \cup Makers("Array", {"Erase"}, [this |-> AnyArray, index |-> As("int")], Gives("none"))
    \cup Makers("Array", {"Clear"}, [this |-> AnyArray], Gives("none"))

ArrayRows2 ==
    Makers("Array", {"Contains"}, [this |-> AnyArray, value |-> Stored], Gives("bool"))
    \cup Makers("Array", {"IndexOf"}, [this |-> AnyArray, value |-> Stored], Gives("int"))

ArrayTable ==
    ArrayRows \cup ArrayRows2 \cup FarrayRows \cup FarrayRows2
        \cup ControlArrayRows \cup ControlArrayRows2 \cup ControlArray1DRows
        \cup ControlArray1DRows2 \cup ControlArray1DRows3
        \cup IncreasingAlignmentRows \cup LabelledArraysRows
        \cup LabelledArraysRows2 \cup MeasuredArrayRows
        \cup MeasuredArrayRows2 \cup MeasuredArray1DRows
        \cup MeasuredArray1DRows2 \cup MeasuredArray1DRows3
=============================================================================
