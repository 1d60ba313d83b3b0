---------------------------- MODULE NameWrappers ----------------------------
(* Wrapped routines of connections, channels, instruments and ports. *)
EXTENDS WrapperTable

\* channel-wrapper.cpp
ChannelRows ==
    Makers("Channel", {"New"}, [name |-> As("string")], Gives("Channel"))
    \cup Queries("Channel", {"Name", "ToJSON"}, "string")
    \cup Compares("Channel", {"Equal", "NotEqual"})
    \cup Makers("Channel", {"FromJSON"}, [json |-> As("string")],
        Gives("Channel"))

\* channels-wrapper.cpp
ChannelsRows ==
    Makers("Channels", {"New"}, [array |-> As(ArrayOf("Channel"))],
        Gives("Channels"))
    \cup Compares("Channels", {"Equal", "NotEqual"})
    \cup Queries("Channels", {"ToJSON"}, "string")
    \cup Makers("Channels", {"FromJSON"}, [json |-> As("string")],
        Gives("Channels"))
    \cup Queries("Channels", {"Size"}, "int")
    \cup Queries("Channels", {"IsEmpty"}, "bool")
    \cup Methods("Channels", {"GetIndex"}, [index |-> As("int")],
        Gives("Channel"))

ChannelsRows2 ==
    Methods("Channels", {"SetIndex", "Insert"}, [index |-> As("int"),
        value |-> As("Channel")], Gives("none"))
    \cup Methods("Channels", {"PushBack"}, [value |-> As("Channel")],
        Gives("none"))
    \cup Queries("Channels", {"PopBack"}, "Channel")
    \cup Methods("Channels", {"Erase"}, [index |-> As("int")], Gives("none"))
    \cup Queries("Channels", {"Clear"}, "none")
    \cup Methods("Channels", {"Contains"}, [value |-> As("Channel")],
        Gives("bool"))
    \cup Methods("Channels", {"IndexOf"}, [value |-> As("Channel")],
        Gives("int"))

\* gname-wrapper.cpp
GnameRows ==
    Makers("Gname", {"New"}, [name |-> Param({"string", "int"},
        Themselves({"string", "int"}), Refused)], Gives("Gname"))
    \cup Queries("Gname", {"gname", "ToJSON"}, "string")
    \cup Compares("Gname", {"Equal", "NotEqual"})
    \cup Makers("Gname", {"FromJSON"}, [json |-> As("string")],
        Gives("Gname"))

\* instrument-wrapper.cpp
InstrumentRows ==
    Makers("Instrument", {"DCVoltageSource", "Amnmeter", "Magnet",
        "VoltageSource", "Clock"}, None, Gives("string"))

\* instrument-port-wrapper.cpp
InstrumentPortRows ==
    Makers("InstrumentPort", {"NewKnob", "NewMeter"},
        [default_name |-> As("string"), conn |-> As("Connection"),
        type |-> As("Instrument"), units |-> As("SymbolUnit"),
        description |-> As("string")], Gives("InstrumentPort"))
    \cup Makers("InstrumentPort", {"NewTimer", "NewExecutionClock"}, None,
        GivesAs("none", "InstrumentPort", "InstrumentPort"))
    \cup Queries("InstrumentPort", {"DefaultName", "Description",
        "InstrumentFacingName"}, "string")
    \cup Queries("InstrumentPort", {"PsuedoName"}, "Connection")
    \cup Queries("InstrumentPort", {"InstrumentType"}, "Instrument")
    \cup Queries("InstrumentPort", {"Units"}, "SymbolUnit")
    \cup Queries("InstrumentPort", {"IsKnob", "IsMeter"}, "bool")

InstrumentPortRows2 ==
    Compares("InstrumentPort", {"Equal", "NotEqual"})
    \cup Queries("InstrumentPort", {"ToJSON"}, "string")
    \cup Makers("InstrumentPort", {"FromJSON"}, [json |-> As("string")],
        Gives("InstrumentPort"))

\* ports-wrapper.cpp
PortsRows ==
    Makers("Ports", {"New"}, [ports |-> As(ArrayOf("InstrumentPort"))],
        Gives("Ports"))

PortsRows2 ==
    Queries("Ports", {"Ports"}, ArrayOf("InstrumentPort"))
    \cup Queries("Ports", {"GetDefaultNames"}, ArrayOf("string"))
    \cup Queries("Ports", {"GetPsuedoNames"}, ArrayOf("Connection"))
    \cup Methods("Ports", {"IsKnobs", "IsMeters"}, None,
        GivesAs(ArrayOf("bool"), "bool", "bool"))
    \cup Compares("Ports", {"Equal", "NotEqual"})
    \cup Queries("Ports", {"ToJSON"}, "string")
    \cup Makers("Ports", {"FromJSON"}, [json |-> As("string")],
        Gives("Ports"))
    \cup Queries("Ports", {"Size"}, "int")
    \cup Queries("Ports", {"IsEmpty"}, "bool")
    \cup Methods("Ports", {"GetIndex"}, [index |-> As("int")],
        GivesAs("InstrumentPort", "LabelledDomain", "InstrumentPort"))
    \cup Methods("Ports", {"PushBack"}, [value |-> As("InstrumentPort")],
        Gives("none"))
    \cup Methods("Ports", {"Insert"}, [index |-> As("int"),
        value |-> As("InstrumentPort")], Gives("none"))

PortsRows3 ==
    Methods("Ports", {"Contains"}, [value |-> As("InstrumentPort")],
        Gives("bool"))
    \cup Methods("Ports", {"Index"}, [value |-> As("InstrumentPort")],
        Gives("int"))
    \cup Queries("Ports", {"Clear"}, "none")
    \cup Methods("Ports", {"Erase"}, [index |-> As("int")], Gives("none"))

\* port-transform-wrapper.cpp
PortTransformRows ==
    Makers("PortTransform", {"New"}, [port |-> As("InstrumentPort"),
        func |-> As("AnalyticFunction")], Gives("PortTransform"))
    \cup Makers("PortTransform", {"ConstantTransform"},
        [port |-> As("InstrumentPort"), value |-> As("float")],
        Gives("PortTransform"))
    \cup Makers("PortTransform", {"IdentityTranform"},
        [port |-> As("InstrumentPort")], Gives("PortTransform"))
    \cup Queries("PortTransform", {"Port"}, "InstrumentPort")
    \cup Queries("PortTransform", {"Labels"}, ArrayOf("string"))
    \cup Compares("PortTransform", {"Equal", "NotEqual"})
    \cup Queries("PortTransform", {"ToJSON"}, "string")
    \cup Makers("PortTransform", {"FromJSON"}, [json |-> As("string")],
        Gives("PortTransform"))

\* port-transforms-wrapper.cpp
PortTransformsRows ==
    Makers("PortTransforms", {"New"},
        [transforms |-> As(ArrayOf("PortTransform"))],
        Gives("PortTransforms"))
    \cup Methods("PortTransforms", {"GetIndex"}, [index |-> As("int")],
        Gives("PortTransform"))
    \cup Methods("PortTransforms", {"SetIndex", "Insert"},
        [index |-> As("int"), value |-> As("PortTransform")], Gives("none"))
    \cup Methods("PortTransforms", {"PushBack"},
        [value |-> As("PortTransform")], Gives("none"))

PortTransformsRows2 ==
    Methods("PortTransforms", {"Erase"}, [index |-> As("int")], Gives("none"))
    \cup Queries("PortTransforms", {"Clear"}, "none")
    \cup Methods("PortTransforms", {"Contains"},
        [value |-> As("PortTransform")], Gives("bool"))
    \cup Methods("PortTransforms", {"IndexOf"},
        [value |-> As("PortTransform")], Gives("int"))
    \cup Queries("PortTransforms", {"Size"}, "int")
    \cup Queries("PortTransforms", {"IsEmpty"}, "bool")
    \cup Compares("PortTransforms", {"Equal", "NotEqual"})
    \cup Queries("PortTransforms", {"ToJSON"}, "string")
    \cup Makers("PortTransforms", {"FromJSON"}, [json |-> As("string")],
        Gives("PortTransforms"))

\* connection-wrapper.cpp
ConnectionRows ==
    Makers("Connection", {"NewPlungerGate", "NewBarrierGate",
        "NewReservoirGate", "NewScreeningGate", "NewOhmic"},
        [name |-> As("string")], Gives("Connection"))
    \cup Queries("Connection", {"Name", "Type"}, "string")
    \cup Queries("Connection", {"IsDotGate", "IsBarrierGate", "IsPlungerGate",
        "IsScreeningGate", "IsReservoirGate", "IsOhmic", "IsGate"}, "bool")
    \cup Compares("Connection", {"Equal"})

ConnectionRows2 ==
    Compares("Connection", {"NotEqual"})
    \cup Queries("Connection", {"ToJSON"}, "string")
    \cup Makers("Connection", {"FromJSON"}, [json |-> As("string")],
        Gives("Connection"))

\* connections-wrapper.cpp
ConnectionsRows ==
    Makers("Connections", {"New"}, [conns |-> As(ArrayOf("Connection"))],
        Gives("Connections"))
    \cup Queries("Connections", {"IsGates", "IsOhmics", "IsDotGates",
        "IsPlungerGates", "IsBarrierGates"}, "bool")

ConnectionsRows2 ==
    Queries("Connections", {"IsReservoirGates", "IsScreeningGates",
        "IsEmpty"}, "bool")
    \cup Methods("Connections", {"Intersection"},
        [other |-> As("Connections")], Gives("Connections"))
    \cup Compares("Connections", {"Equal", "NotEqual"})
    \cup Queries("Connections", {"ToJSON"}, "string")
    \cup Makers("Connections", {"FromJSON"}, [json |-> As("string")],
        Gives("Connections"))
    \cup Queries("Connections", {"Size"}, "int")
    \cup Methods("Connections", {"GetIndex"}, [index |-> As("int")],
        Gives("Connection"))
    \cup Methods("Connections", {"PushBack"}, [value |-> As("Connection")],
        Gives("none"))
    \cup Methods("Connections", {"Insert"}, [index |-> As("int"),
        value |-> As("Connection")], Gives("none"))
    \cup Methods("Connections", {"Contains"}, [value |-> As("Connection")],
        Gives("bool"))
    \cup Methods("Connections", {"Index"}, [value |-> As("Connection")],
        Gives("int"))

ConnectionsRows3 ==
    Queries("Connections", {"Items"}, ArrayOf("Connection"))
    \cup Queries("Connections", {"Clear"}, "none")
    \cup Methods("Connections", {"Erase"}, [index |-> As("int")],
        Gives("none"))

NameTable ==
    ChannelRows \cup ChannelsRows \cup ChannelsRows2 \cup GnameRows
        \cup InstrumentRows \cup InstrumentPortRows \cup InstrumentPortRows2
        \cup PortsRows \cup PortsRows2 \cup PortsRows3 \cup PortTransformRows
        \cup PortTransformsRows \cup PortTransformsRows2 \cup ConnectionRows
        \cup ConnectionRows2 \cup ConnectionsRows \cup ConnectionsRows2
        \cup ConnectionsRows3
=============================================================================
