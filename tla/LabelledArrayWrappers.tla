----------------------- MODULE LabelledArrayWrappers ------------------------
(* Wrapped routines of arrays that carry an acquisition context. *)
EXTENDS WrapperTable

\* labelled-control-array-wrapper.cpp
LabelledControlArrayRows ==
    Makers("LabelledControlArray", {"New"}, [arr |-> As("FArray")],
        Gives("LabelledControlArray"))
    \cup Methods("LabelledControlArray", {"Add"},
        [other |-> Operand({"ControlArray", "FArray"},
        Themselves({"LabelledControlArray"}))], Gives("LabelledControlArray"))
    \cup Methods("LabelledControlArray", {"Minus"},
        [other |-> Operand({"LabelledControlArray", "FArray"},
        Themselves({"LabelledControlArray"}))], Gives("LabelledControlArray"))
    \cup Queries("LabelledControlArray", {"Negate", "Abs"},
        "LabelledControlArray")

LabelledControlArrayRows2 ==
    Methods("LabelledControlArray", {"Times", "Divides"}, [factor |-> Number],
        Gives("LabelledControlArray"))
    \cup Methods("LabelledControlArray", {"Power"}, [exponent |-> FloatOrInt],
        Gives("LabelledControlArray"))
    \cup Queries("LabelledControlArray", {"Min", "Max"}, "float")
    \cup Queries("LabelledControlArray", {"PrincipleDimension"}, "int")
    \cup Queries("LabelledControlArray", {"Alignment"}, "IncreasingAlignment")
    \cup Queries("LabelledControlArray", {"Label"}, "AcquisitionContext")
    \cup Queries("LabelledControlArray", {"Connection"}, "Connection")
    \cup Queries("LabelledControlArray", {"InstrumentType"}, "Instrument")
    \cup Queries("LabelledControlArray", {"Units"}, "SymbolUnit")
    \cup Methods("LabelledControlArray", {"Reshape"},
        [shape |-> RawArray("int")], Gives("LabelledControlArray"))
    \cup Methods("LabelledControlArray", {"Flip"}, [axis |-> As("int")],
        Gives("LabelledControlArray"))
    \cup Methods("LabelledControlArray", {"Gradient"}, [axis |-> As("int")],
        Gives("FArray"))

LabelledControlArrayRows3 ==
    Methods("LabelledControlArray", {"FullGradient"}, None, Raw("FArray"))
    \cup Compares("LabelledControlArray", {"Equal", "NotEqual"})
    \cup Queries("LabelledControlArray", {"ToJSON"}, "string")
    \cup Makers("LabelledControlArray", {"FromJSON"}, [json |-> As("string")],
        Gives("LabelledControlArray"))

\* labelled-control-array-wrapper.cpp
LabelledControlArray1DRows ==
    Makers("LabelledControlArray1D", {"New"}, [arr |-> As("FArray")],
        Gives("LabelledControlArray1D"))
    \cup Methods("LabelledControlArray1D", {"Add"},
        [other |-> Operand({"ControlArray", "FArray"},
        Themselves({"LabelledControlArray1D"}))],
        Gives("LabelledControlArray1D"))
    \cup Methods("LabelledControlArray1D", {"Minus"},
        [other |-> Operand({"LabelledControlArray1D", "FArray"},
        Themselves({"LabelledControlArray1D"}))],
        Gives("LabelledControlArray1D"))
    \cup Queries("LabelledControlArray1D", {"Negate", "Abs"},
        "LabelledControlArray1D")

LabelledControlArray1DRows2 ==
    Methods("LabelledControlArray1D", {"Times", "Divides"},
        [factor |-> Number], Gives("LabelledControlArray1D"))
    \cup Methods("LabelledControlArray1D", {"Power"},
        [exponent |-> FloatOrInt], Gives("LabelledControlArray1D"))
    \cup Queries("LabelledControlArray1D", {"Min", "Max", "GetStart",
        "GetEnd"}, "float")
    \cup Queries("LabelledControlArray1D", {"PrincipleDimension"}, "int")
    \cup Queries("LabelledControlArray1D", {"Alignment"},
        "IncreasingAlignment")
    \cup Queries("LabelledControlArray1D", {"Label"}, "AcquisitionContext")
    \cup Queries("LabelledControlArray1D", {"Connection"}, "Connection")
    \cup Queries("LabelledControlArray1D", {"InstrumentType"}, "Instrument")
    \cup Queries("LabelledControlArray1D", {"Units"}, "SymbolUnit")
    \cup Queries("LabelledControlArray1D", {"IsDecreasing", "IsIncreasing"},
        "bool")

LabelledControlArray1DRows3 ==
    Queries("LabelledControlArray1D", {"GetDistance", "GetMean", "GetSTD"},
        "float")
    \cup Queries("LabelledControlArray1D", {"Reverse"}, "none")
    \cup Methods("LabelledControlArray1D", {"GetClosestIndex"},
        [value |-> FloatOrInt], Gives("int"))
    \cup Methods("LabelledControlArray1D", {"EvenDivisions"},
        [divisions |-> As("int")], Raw("FArray"))
    \cup Methods("LabelledControlArray1D", {"Reshape"},
        [shape |-> RawArray("int")], Gives("LabelledControlArray1D"))
    \cup Methods("LabelledControlArray1D", {"Flip"}, [axis |-> As("int")],
        Gives("LabelledControlArray1D"))
    \cup Methods("LabelledControlArray1D", {"Gradient"}, [axis |-> As("int")],
        Gives("FArray"))
    \cup Methods("LabelledControlArray1D", {"FullGradient"}, None,
        Raw("FArray"))
    \cup Compares("LabelledControlArray1D", {"Equal", "NotEqual"})
    \cup Queries("LabelledControlArray1D", {"ToJSON"}, "string")
    \cup Makers("LabelledControlArray1D", {"FromJSON"},
        [json |-> As("string")], Gives("LabelledControlArray1D"))

\* labelled-measured-array-wrapper.cpp
LabelledMeasuredArrayRows ==
    Makers("LabelledMeasuredArray", {"New"}, [arr |-> As("FArray")],
        Gives("LabelledMeasuredArray"))
    \cup Methods("LabelledMeasuredArray", {"Add", "Minus"},
        [other |-> Operand({"MeasuredArray", "FArray"},
        Themselves({"LabelledMeasuredArray", "MeasuredArray"}))],
        Gives("LabelledMeasuredArray"))
    \cup Queries("LabelledMeasuredArray", {"Negate", "Abs"},
        "LabelledMeasuredArray")

LabelledMeasuredArrayRows2 ==
    Methods("LabelledMeasuredArray", {"Times", "Divides"},
        [factor |-> Number], Gives("LabelledMeasuredArray"))
    \cup Methods("LabelledMeasuredArray", {"Power"},
        [exponent |-> FloatOrInt], Gives("LabelledMeasuredArray"))
    \cup Queries("LabelledMeasuredArray", {"Min", "Max"}, "float")
    \cup Queries("LabelledMeasuredArray", {"Label"}, "AcquisitionContext")
    \cup Queries("LabelledMeasuredArray", {"Connection"}, "Connection")
    \cup Queries("LabelledMeasuredArray", {"InstrumentType"}, "Instrument")
    \cup Queries("LabelledMeasuredArray", {"Units"}, "SymbolUnit")
    \cup Methods("LabelledMeasuredArray", {"Reshape"},
        [shape |-> RawArray("int")], Gives("LabelledMeasuredArray"))
    \cup Methods("LabelledMeasuredArray", {"Flip"}, [axis |-> As("int")],
        Gives("LabelledMeasuredArray"))
    \cup Methods("LabelledMeasuredArray", {"Gradient"}, [axis |-> As("int")],
        Gives("FArray"))
    \cup Methods("LabelledMeasuredArray", {"FullGradient"}, None,
        Raw("FArray"))
    \cup Methods("LabelledMeasuredArray", {"Equal"}, [other |-> As("FArray")],
        Gives("bool"))

LabelledMeasuredArrayRows3 ==
    Methods("LabelledMeasuredArray", {"NotEqual"}, [other |-> As("FArray")],
        Gives("bool"))
    \cup Queries("LabelledMeasuredArray", {"ToJSON"}, "string")
    \cup Makers("LabelledMeasuredArray", {"FromJSON"},
        [json |-> As("string")], Gives("FArray"))

\* labelled-measured-array-1D-wrapper.cpp
LabelledMeasuredArray1DRows ==
    Makers("LabelledMeasuredArray1D", {"New"}, [arr |-> As("FArray")],
        Gives("LabelledMeasuredArray1D"))
    \cup Methods("LabelledMeasuredArray1D", {"Add", "Minus"},
        [other |-> Operand({"MeasuredArray", "FArray"},
        Themselves({"LabelledMeasuredArray1D", "MeasuredArray"}))],
        Gives("LabelledMeasuredArray1D"))
    \cup Queries("LabelledMeasuredArray1D", {"Negate", "Abs"},
        "LabelledMeasuredArray1D")

LabelledMeasuredArray1DRows2 ==
    Methods("LabelledMeasuredArray1D", {"Times", "Divides"},
        [factor |-> Number], Gives("LabelledMeasuredArray1D"))
    \cup Methods("LabelledMeasuredArray1D", {"Power"},
        [exponent |-> FloatOrInt], Gives("LabelledMeasuredArray1D"))
    \cup Queries("LabelledMeasuredArray1D", {"Min", "Max", "GetStart",
        "GetEnd", "GetDistance", "GetMean", "GetSTD"}, "float")
    \cup Queries("LabelledMeasuredArray1D", {"Label"}, "AcquisitionContext")
    \cup Queries("LabelledMeasuredArray1D", {"Connection"}, "Connection")
    \cup Queries("LabelledMeasuredArray1D", {"InstrumentType"}, "Instrument")
    \cup Queries("LabelledMeasuredArray1D", {"Units"}, "SymbolUnit")
    \cup Queries("LabelledMeasuredArray1D", {"IsDecreasing", "IsIncreasing"},
        "bool")

LabelledMeasuredArray1DRows3 ==
    Queries("LabelledMeasuredArray1D", {"Reverse"}, "none")
    \cup Methods("LabelledMeasuredArray1D", {"GetClosestIndex"},
        [value |-> FloatOrInt], Gives("int"))
    \cup Methods("LabelledMeasuredArray1D", {"EvenDivisions"},
        [divisions |-> As("int")], Raw("FArray"))
    \cup Methods("LabelledMeasuredArray1D", {"Reshape"},
        [shape |-> RawArray("int")], Gives("LabelledMeasuredArray1D"))
    \cup Methods("LabelledMeasuredArray1D", {"Flip"}, [axis |-> As("int")],
        Gives("LabelledMeasuredArray1D"))
    \cup Methods("LabelledMeasuredArray1D", {"Gradient"},
        [axis |-> As("int")], Gives("FArray"))
    \cup Methods("LabelledMeasuredArray1D", {"FullGradient"}, None,
        Raw("FArray"))
    \cup Compares("LabelledMeasuredArray1D", {"Equal", "NotEqual"})
    \cup Queries("LabelledMeasuredArray1D", {"ToJSON"}, "string")
    \cup Makers("LabelledMeasuredArray1D", {"FromJSON"},
        [json |-> As("string")], Gives("LabelledMeasuredArray1D"))

LabelledArrayTable ==
    LabelledControlArrayRows \cup LabelledControlArrayRows2
        \cup LabelledControlArrayRows3 \cup LabelledControlArray1DRows
        \cup LabelledControlArray1DRows2 \cup LabelledControlArray1DRows3
        \cup LabelledMeasuredArrayRows \cup LabelledMeasuredArrayRows2
        \cup LabelledMeasuredArrayRows3 \cup LabelledMeasuredArray1DRows
        \cup LabelledMeasuredArray1DRows2 \cup LabelledMeasuredArray1DRows3
=============================================================================
