-------------------------- MODULE MessageWrappers ---------------------------
(* Wrapped routines of messages and waveforms. *)
EXTENDS WrapperTable

\* measurement-request-wrapper.cpp
MeasurementRequestRows ==
    Makers("MeasurementRequest", {"New"}, [message |-> As("string"),
        measurement_name |-> As("string"),
        waveforms |-> As(ArrayOf("Waveform")), getters |-> As("Ports"),
        meterTransforms |-> Ignored("Map<InstrumentPort,PortTransform>"),
        timeDomain |-> As("LabelledDomain")], Gives("MeasurementRequest"))
    \cup Queries("MeasurementRequest", {"MeasurementName", "Message",
        "ToJSON"}, "string")
    \cup Queries("MeasurementRequest", {"Getters"}, "Ports")
    \cup Makers("MeasurementRequest", {"Waveforms"},
        [this |-> Ignored("MeasurementRequest")], Throws(ArrayOf("Waveform")))
    \cup Makers("MeasurementRequest", {"MeterTransforms"},
        [this |-> Ignored("MeasurementRequest")],
        Throws("Map<InstrumentPort,PortTransform>"))
    \cup Queries("MeasurementRequest", {"TimeDomain"}, "LabelledDomain")
    \cup Methods("MeasurementRequest", {"Equal", "NotEqual"},
        [other |-> Param({"PortTransforms"}, None, "MeasurementRequest")],
        Gives("bool"))

MeasurementRequestRows2 ==
    Makers("MeasurementRequest", {"FromJSON"}, [json |-> As("string")],
        GivesAs("PortTransforms", "MeasurementRequest", "MeasurementRequest"))

\* measurement-response-wrapper.cpp
MeasurementResponseRows ==
    Makers("MeasurementResponse", {"New"},
        [arrays |-> Param({"LabelledArrays"}, None,
        "LabelledMeasuredArrays")], Gives("MeasurementResponse"))
    \cup Methods("MeasurementResponse", {"Arrays"}, None,
        GivesAs("LabelledArrays", "LabelledMeasuredArrays",
        "LabelledMeasuredArrays"))
    \cup Queries("MeasurementResponse", {"Message", "ToJSON"}, "string")
    \cup Compares("MeasurementResponse", {"Equal", "NotEqual"})
    \cup Makers("MeasurementResponse", {"FromJSON"}, [json |-> As("string")],
        Gives("MeasurementResponse"))

\* standard-request-wrapper.cpp
StandardRequestRows ==
    Makers("StandardRequest", {"New"}, [message |-> As("string")],
        Gives("StandardRequest"))
    \cup Queries("StandardRequest", {"Message", "ToJSON"}, "string")
    \cup Compares("StandardRequest", {"Equal", "NotEqual"})
    \cup Makers("StandardRequest", {"FromJSON"}, [json |-> As("string")],
        Gives("StandardRequest"))

\* standard-response-wrapper.cpp
StandardResponseRows ==
    Makers("StandardResponse", {"New"}, [message |-> As("string")],
        Gives("StandardResponse"))
    \cup Queries("StandardResponse", {"Message", "ToJSON"}, "string")
    \cup Compares("StandardResponse", {"Equal", "NotEqual"})
    \cup Makers("StandardResponse", {"FromJSON"}, [json |-> As("string")],
        Gives("StandardResponse"))

\* voltage-states-response-wrapper.cpp
VoltageStatesResponseRows ==
    Makers("VoltageStatesResponse", {"New"}, [message |-> As("string"),
        states |-> As("DeviceVoltageStates")], Gives("VoltageStatesResponse"))
    \cup Queries("VoltageStatesResponse", {"States"}, "DeviceVoltageStates")
    \cup Queries("VoltageStatesResponse", {"Message", "ToJSON"}, "string")
    \cup Compares("VoltageStatesResponse", {"Equal", "NotEqual"})
    \cup Makers("VoltageStatesResponse", {"FromJSON"},
        [json |-> As("string")], Gives("VoltageStatesResponse"))

\* waveform-wrapper.cpp
WaveformRows ==
    Makers("Waveform", {"New"}, [space |-> As("DiscreteSpace"),
        transforms |-> As(ArrayOf("PortTransform"))], Gives("Waveform"))
    \cup Makers("Waveform", {"NewCartesianWaveform1D"},
        [division |-> Ignored("int"),
        axes |-> Ignored("Axes<CoupledLabelledDomain>"),
        increasing |-> Ignored("Axes<Map<string,bool>>"),
        transforms |-> Ignored(ArrayOf("PortTransform")),
        domain |-> Ignored("Domain")], Throws("Waveform"))
    \cup Makers("Waveform", {"NewCartesianIdentityWaveform1D"},
        [division |-> Ignored("int"),
        axes |-> Ignored("Axes<CoupledLabelledDomain>"),
        increasing |-> Ignored("Axes<Map<string,bool>>"),
        domain |-> Ignored("Domain")], Throws("Waveform"))
    \cup Makers("Waveform", {"NewCartesianWaveform",
        "NewCartesianWaveform2D"}, [divisions |-> Ignored("Axes<int>"),
        axes |-> Ignored("Axes<CoupledLabelledDomain>"),
        increasing |-> Ignored("Axes<Map<string,bool>>"),
        transforms |-> Ignored(ArrayOf("PortTransform")),
        domain |-> Ignored("Domain")], Throws("Waveform"))
    \cup Makers("Waveform", {"NewCartesianIdentityWaveform",
        "NewCartesianIdentityWaveform2D"},
        [divisions |-> Ignored("Axes<int>"),
        axes |-> Ignored("Axes<CoupledLabelledDomain>"),
        increasing |-> Ignored("Axes<Map<string,bool>>"),
        domain |-> Ignored("Domain")], Throws("Waveform"))
    \cup Queries("Waveform", {"Space"}, "DiscreteSpace")
    \cup Queries("Waveform", {"Size"}, "int")
    \cup Queries("Waveform", {"IsEmpty"}, "bool")
    \cup Methods("Waveform", {"GetIndex"}, [index |-> As("int")],
        Gives("PortTransform"))

WaveformRows2 ==
    Methods("Waveform", {"SetIndex", "Insert"}, [index |-> As("int"),
        value |-> As("PortTransform")], Gives("none"))
    \cup Methods("Waveform", {"PushBack"}, [value |-> As("PortTransform")],
        Gives("none"))
    \cup Queries("Waveform", {"PopBack"}, "PortTransform")
    \cup Methods("Waveform", {"Erase"}, [index |-> As("int")], Gives("none"))
    \cup Queries("Waveform", {"Clear"}, "none")
    \cup Methods("Waveform", {"Contains"}, [value |-> As("PortTransform")],
        Gives("bool"))
    \cup Methods("Waveform", {"IndexOf"}, [value |-> As("PortTransform")],
        Gives("int"))
    \cup Compares("Waveform", {"Equal", "NotEqual"})
    \cup Queries("Waveform", {"ToJSON"}, "string")
    \cup Makers("Waveform", {"FromJSON"}, [json |-> As("string")],
        Gives("Waveform"))

MessageTable ==
    MeasurementRequestRows \cup MeasurementRequestRows2
        \cup MeasurementResponseRows \cup StandardRequestRows
        \cup StandardResponseRows \cup VoltageStatesResponseRows
        \cup WaveformRows \cup WaveformRows2
=============================================================================
