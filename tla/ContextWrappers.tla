-------------------------- MODULE ContextWrappers ---------------------------
(* Wrapped routines of measurement and acquisition contexts, and interpretations. *)
EXTENDS WrapperTable

\* acquisition-context-wrapper.cpp
AcquisitionContextRows ==
    Makers("AcquisitionContext", {"New"}, [conn |-> As("Connection"),
        inst |-> As("Instrument"), unit |-> As("SymbolUnit")],
        Gives("AcquisitionContext"))
    \cup Makers("AcquisitionContext", {"NewFromContext"},
        [context |-> As("MeasurementContext"), unit |-> As("SymbolUnit")],
        Gives("AcquisitionContext"))
    \cup Queries("AcquisitionContext", {"Connection"}, "Connection")
    \cup Queries("AcquisitionContext", {"Instrument"}, "Instrument")
    \cup Queries("AcquisitionContext", {"Units"}, "SymbolUnit")
    \cup Methods("AcquisitionContext", {"Division"},
        [other |-> Param({"AcquisitionContext", "SymbolUnit"}, None,
        "AcquisitionContext")], Gives("AcquisitionContext"))
    \cup Methods("AcquisitionContext", {"MatchConnection"},
        [other |-> As("Connection")], Gives("bool"))
    \cup Methods("AcquisitionContext", {"MatchInstrumentType"},
        [other |-> As("Instrument")], Gives("bool"))
    \cup Compares("AcquisitionContext", {"Equal", "NotEqual"})

AcquisitionContextRows2 ==
    Queries("AcquisitionContext", {"ToJSON"}, "string")
    \cup Makers("AcquisitionContext", {"FromJSON"}, [json |-> As("string")],
        Gives("AcquisitionContext"))

\* measurement-context-wrapper.cpp
MeasurementContextRows ==
    Makers("MeasurementContext", {"New"}, [conn |-> As("Connection"),
        inst |-> As("Instrument")], Gives("MeasurementContext"))
    \cup Queries("MeasurementContext", {"Connection"}, "Connection")
    \cup Queries("MeasurementContext", {"Instrument"}, "Instrument")
    \cup Compares("MeasurementContext", {"Equal", "NotEqual"})
    \cup Queries("MeasurementContext", {"ToJSON"}, "string")
    \cup Makers("MeasurementContext", {"FromJSON"}, [json |-> As("string")],
        Gives("MeasurementContext"))

\* interpretation-context-wrapper.cpp
InterpretationContextRows ==
    Makers("InterpretationContext", {"New"},
        [independantVariables |-> AxesOrArray("MeasurementContext"),
        dependantVariables |-> As(ArrayOf("MeasurementContext")),
        unit |-> As("SymbolUnit")], Gives("InterpretationContext"))
    \cup Methods("InterpretationContext", {"IndependentVariables"}, None,
        GivesAs("Axes<MeasurementContext>", "Array",
        ArrayOf("MeasurementContext")))

InterpretationContextRows2 ==
    Queries("InterpretationContext", {"DependentVariables"},
        ArrayOf("MeasurementContext"))
    \cup Queries("InterpretationContext", {"Unit"}, "SymbolUnit")
    \cup Queries("InterpretationContext", {"Dimension"}, "int")
    \cup Methods("InterpretationContext", {"AddDependentVariable"},
        [context |-> As("MeasurementContext")], Gives("none"))
    \cup Methods("InterpretationContext", {"ReplaceDependantVariable"},
        [index |-> As("int"), context |-> As("MeasurementContext")],
        Gives("none"))
    \cup Methods("InterpretationContext", {"GetIndependentVariable"},
        [index |-> As("int")], Gives("MeasurementContext"))
    \cup Methods("InterpretationContext", {"WithUnit"},
        [unit |-> As("SymbolUnit")], Gives("InterpretationContext"))
    \cup Compares("InterpretationContext", {"Equal", "NotEqual"})
    \cup Queries("InterpretationContext", {"ToJSON"}, "string")
    \cup Makers("InterpretationContext", {"FromJSON"},
        [json |-> As("string")], Gives("InterpretationContext"))

ContextTable ==
    AcquisitionContextRows \cup AcquisitionContextRows2
        \cup MeasurementContextRows \cup InterpretationContextRows
        \cup InterpretationContextRows2
=============================================================================
