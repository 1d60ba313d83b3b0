--------------------------- MODULE DomainWrappers ---------------------------
(* Wrapped routines of domains, spaces and functions. *)
EXTENDS WrapperTable

\* analytic-function-wrapper.cpp
AnalyticFunctionRows ==
    Makers("AnalyticFunction", {"New"}, [labels |-> As(ArrayOf("string")),
        expression |-> As("string")], Gives("AnalyticFunction"))
    \cup Makers("AnalyticFunction", {"Identity"}, None,
        Gives("AnalyticFunction"))
    \cup Makers("AnalyticFunction", {"Constant"}, [value |-> FloatOrInt],
        Gives("AnalyticFunction"))
    \cup Queries("AnalyticFunction", {"Labels"}, ArrayOf("string"))
    \cup Compares("AnalyticFunction", {"Equal", "NotEqual"})
    \cup Queries("AnalyticFunction", {"ToJSON"}, "string")

AnalyticFunctionRows2 ==
    Makers("AnalyticFunction", {"FromJSON"}, [json |-> As("string")],
        Gives("AnalyticFunction"))

\* axes-wrapper.cpp
AxesRows ==
    Makers("Axes", {"Equal", "NotEqual"}, [other |-> Ignored("Axes<T>")],
        Gives("bool"))
    \cup Makers("Axes", {"ToJSON"}, None, Gives("string"))
    \cup Makers("Axes", {"FromJSON"}, [json |-> Ignored("string")],
        Nil("Axes<T>"))

\* discrete-space-wrapper.cpp
DiscreteSpaceRows ==
    Makers("DiscreteSpace", {"New"}, [space |-> As("UnitSpace"),
        axes |-> AxesAsArray("CoupledLabelledDomain"),
        increasing |-> AxesAsArray("Map<string,bool>")],
        Gives("DiscreteSpace"))

DiscreteSpaceRows2 ==
    Makers("DiscreteSpace", {"CartesianDiscreteSpace"},
        [divisions |-> AxesAsArray("int"),
        axes |-> AxesAsArray("CoupledLabelledDomain"),
        increasing |-> AxesAsArray("Map<string,bool>"),
        domain |-> As("Domain")], Gives("DiscreteSpace"))
    \cup Makers("DiscreteSpace", {"CartesianDiscreteSpace1D"},
        [division |-> As("int"), sharedDomain |-> As("CoupledLabelledDomain"),
        increasing |-> As("Map<string,bool>"), domain |-> As("Domain")],
        Gives("DiscreteSpace"))
    \cup Queries("DiscreteSpace", {"Space"}, "UnitSpace")
    \cup Methods("DiscreteSpace", {"Increasing"}, None,
        GivesAs("Axes<Map<string,bool>>", "Array",
        ArrayOf("Map<string,bool>")))
    \cup Queries("DiscreteSpace", {"Knobs"}, "Ports")
    \cup Methods("DiscreteSpace", {"GetAxis"},
        [port |-> As("InstrumentPort")], Gives("int"))
    \cup Methods("DiscreteSpace", {"GetDomain"},
        [port |-> As("InstrumentPort")], Gives("Domain"))

DiscreteSpaceRows3 ==
    Methods("DiscreteSpace", {"GetProjection"},
        [projection |-> AxesAsArray("InstrumentPort")],
        GivesAs("Axes<LabelledControlArray>", "Array",
        ArrayOf("LabelledControlArray")))
    \cup Compares("DiscreteSpace", {"Equal", "NotEqual"})
    \cup Queries("DiscreteSpace", {"ToJSON"}, "string")
    \cup Makers("DiscreteSpace", {"FromJSON"}, [json |-> As("string")],
        Gives("DiscreteSpace"))

\* discretizer-wrapper.cpp
DiscretizerRows ==
    Makers("Discretizer", {"NewCartesianDiscretizer", "NewPolarDiscretizer"},
        [delta |-> As("float")], Gives("Discretizer"))
    \cup Queries("Discretizer", {"Delta"}, "float")
    \cup Methods("Discretizer", {"SetDelta"}, [delta |-> As("float")],
        Gives("none"))
    \cup Queries("Discretizer", {"Domain"}, "Domain")
    \cup Queries("Discretizer", {"IsCartesian", "IsPolar"}, "bool")
    \cup Compares("Discretizer", {"Equal", "NotEqual"})
    \cup Queries("Discretizer", {"ToJSON"}, "string")
    \cup Makers("Discretizer", {"FromJSON"}, [json |-> As("string")],
        Gives("Discretizer"))

\* coupled-labelled-domain-wrapper.cpp
CoupledLabelledDomainRows ==
    Makers("CoupledLabelledDomain", {"New"},
        [conns |-> As(ArrayOf("LabelledDomain"))],
        Gives("CoupledLabelledDomain"))
    \cup Compares("CoupledLabelledDomain", {"Equal", "NotEqual"})
    \cup Makers("CoupledLabelledDomain", {"FromJSON"},
        [json |-> As("string")], Gives("CoupledLabelledDomain"))
    \cup Queries("CoupledLabelledDomain", {"ToJSON"}, "string")
    \cup Queries("CoupledLabelledDomain", {"Size"}, "int")
    \cup Queries("CoupledLabelledDomain", {"IsEmpty"}, "bool")

CoupledLabelledDomainRows2 ==
    Methods("CoupledLabelledDomain", {"GetIndex"}, [index |-> As("int")],
        Gives("LabelledDomain"))
    \cup Methods("CoupledLabelledDomain", {"PushBack"},
        [value |-> As("LabelledDomain")], Gives("none"))
    \cup Methods("CoupledLabelledDomain", {"Insert"}, [index |-> As("int"),
        value |-> As("LabelledDomain")], Gives("none"))
    \cup Methods("CoupledLabelledDomain", {"Contains"},
        [value |-> As("LabelledDomain")], Gives("bool"))
    \cup Methods("CoupledLabelledDomain", {"Index"},
        [value |-> As("LabelledDomain")], Gives("int"))
    \cup Methods("CoupledLabelledDomain", {"Domains"}, None,
        GivesAs(ArrayOf("CoupledLabelledDomain"), "Array",
        ArrayOf("LabelledDomain")))
    \cup Queries("CoupledLabelledDomain", {"Labels"}, "Ports")
    \cup Methods("CoupledLabelledDomain", {"GetDomain"},
        [search |-> As("InstrumentPort")], Gives("LabelledDomain"))
    \cup Queries("CoupledLabelledDomain", {"Clear"}, "none")
    \cup Methods("CoupledLabelledDomain", {"Erase"}, [index |-> As("int")],
        Gives("none"))

\* domain-wrapper.cpp
DomainRows ==
    Makers("Domain", {"New"}, [min |-> As("float"), max |-> As("float"),
        lesser_bound_contained |-> As("bool"),
        greater_bound_contained |-> As("bool")], Gives("Domain"))
    \cup Queries("Domain", {"LesserBound", "GreaterBound", "Range",
        "GetCenter"}, "float")
    \cup Queries("Domain", {"LesserBoundContained", "GreaterBoundContained",
        "IsEmpty"}, "bool")
    \cup Methods("Domain", {"In"}, [value |-> As("float")], Gives("bool"))
    \cup Methods("Domain", {"Intersection", "Union"},
        [other |-> As("Domain")], Gives("Domain"))
    \cup Compares("Domain", {"ContainsDomain"})
    \cup Methods("Domain", {"Shift", "Scaled"}, [offset |-> As("float")],
        Gives("Domain"))
    \cup Methods("Domain", {"Transform"}, [other |-> As("Domain"),
        value |-> As("float")], Gives("float"))

DomainRows2 ==
    Compares("Domain", {"Equal", "NotEqual"})
    \cup Queries("Domain", {"ToJSON"}, "string")
    \cup Makers("Domain", {"FromJSON"}, [json |-> As("string")],
        Gives("Domain"))

\* labelled-domain-wrapper.cpp
LabelledDomainRows ==
    Makers("LabelledDomain", {"NewFromKnob"}, [defaultName |-> As("string"),
        min |-> As("float"), max |-> As("float"),
        psuedoName |-> As("Connection"), instrumentType |-> As("Instrument"),
        lesserBoundContained |-> As("bool"),
        greaterBoundContained |-> As("bool"), units |-> As("SymbolUnit"),
        description |-> As("string")], Gives("LabelledDomain"))
    \cup Makers("LabelledDomain", {"FromPort"}, [max |-> As("float"),
        min |-> As("float"), port |-> As("InstrumentPort"),
        lesserboundContainer |-> As("bool"),
        greaterBoundContained |-> As("bool")], Gives("LabelledDomain"))
    \cup Makers("LabelledDomain", {"FromPortAndDomain"},
        [port |-> As("InstrumentPort"), domain |-> As("Domain")],
        Gives("LabelledDomain"))
    \cup Makers("LabelledDomain", {"FromDomain"}, [domain |-> As("Domain"),
        defaultName |-> As("string"), psuedoName |-> As("Connection"),
        instrumentType |-> As("Instrument"), units |-> As("SymbolUnit"),
        description |-> As("string")], Gives("LabelledDomain"))
    \cup Queries("LabelledDomain", {"Port"}, "InstrumentPort")
    \cup Queries("LabelledDomain", {"Domain"}, "Domain")
    \cup Methods("LabelledDomain", {"MatchingPort"},
        [port |-> As("InstrumentPort")], Gives("bool"))
    \cup Queries("LabelledDomain", {"LesserBound", "GreaterBound"}, "float")
    \cup Queries("LabelledDomain", {"LesserBoundContained"}, "bool")

LabelledDomainRows2 ==
    Queries("LabelledDomain", {"GreaterBoundContained", "IsEmpty"}, "bool")
    \cup Methods("LabelledDomain", {"In"}, [value |-> As("float")],
        Gives("bool"))
    \cup Queries("LabelledDomain", {"Range", "GetCenter"}, "float")
    \cup Methods("LabelledDomain", {"Intersection", "Union"},
        [other |-> As("LabelledDomain")], Gives("LabelledDomain"))
    \cup Compares("LabelledDomain", {"ContainsDomain", "Equal", "NotEqual"})
    \cup Methods("LabelledDomain", {"Shift", "Scaled"},
        [offset |-> As("float")], Gives("LabelledDomain"))
    \cup Methods("LabelledDomain", {"Transform"},
        [other |-> As("LabelledDomain"), value |-> As("float")],
        Gives("float"))
    \cup Queries("LabelledDomain", {"ToJSON"}, "string")
    \cup Makers("LabelledDomain", {"FromJSON"}, [json |-> As("string")],
        Gives("LabelledDomain"))

\* unit-space-wrapper.cpp
UnitSpaceRows ==
    Makers("UnitSpace", {"New"}, [axes |-> Ignored("Axes<Discretizer>"),
        domain |-> As("Domain")], Gives("UnitSpace"))
    \cup Makers("UnitSpace", {"RaySpace"}, [dr |-> As("float"),
        dtheta |-> As("float"), domain |-> As("Domain")], Gives("UnitSpace"))
    \cup Makers("UnitSpace", {"CartesianSpace", "Cartesian2DSpace"},
        [deltas |-> Ignored("Axes<float>"), domain |-> As("Domain")],
        Gives("UnitSpace"))
    \cup Makers("UnitSpace", {"Cartesian1DSpace"}, [delta |-> As("float"),
        domain |-> As("Domain")], Gives("UnitSpace"))
    \cup Methods("UnitSpace", {"Axes"}, None,
        GivesAs("Axes<Discretizer>", "Axes", "NativeAxes"))
    \cup Queries("UnitSpace", {"Domain"}, "Domain")
    \cup Queries("UnitSpace", {"Space"}, "FArray")
    \cup Queries("UnitSpace", {"Shape"}, ArrayOf("int"))
    \cup Queries("UnitSpace", {"Dimension"}, "int")

UnitSpaceRows2 ==
    Queries("UnitSpace", {"Compile"}, "none")
    \cup Makers("UnitSpace", {"CreateArray"}, [this |-> Ignored("UnitSpace"),
        axes |-> Ignored("Axes<int>")], Nil("Axes<ControlArray>"))
    \cup Compares("UnitSpace", {"Equal", "NotEqual"})
    \cup Queries("UnitSpace", {"ToJSON"}, "string")
    \cup Makers("UnitSpace", {"FromJSON"}, [json |-> As("string")],
        Gives("UnitSpace"))

DomainTable ==
    AnalyticFunctionRows \cup AnalyticFunctionRows2 \cup AxesRows
        \cup DiscreteSpaceRows \cup DiscreteSpaceRows2 \cup DiscreteSpaceRows3
        \cup DiscretizerRows \cup CoupledLabelledDomainRows
        \cup CoupledLabelledDomainRows2 \cup DomainRows \cup DomainRows2
        \cup LabelledDomainRows \cup LabelledDomainRows2 \cup UnitSpaceRows
        \cup UnitSpaceRows2
=============================================================================
