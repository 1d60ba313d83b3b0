---------------------------- MODULE UnitWrappers ----------------------------
(* Wrapped routines of units, quantities, points, vectors and device voltages. *)
EXTENDS WrapperTable

\* device-voltage-state-wrapper.cpp
DeviceVoltageStateRows ==
    Makers("DeviceVoltageState", {"New"}, [conn |-> As("Connection"),
        voltage |-> As("float"), unit |-> As("SymbolUnit")],
        Gives("DeviceVoltageState"))
    \cup Queries("DeviceVoltageState", {"Connection"}, "Connection")
    \cup Queries("DeviceVoltageState", {"Voltage"}, "float")
    \cup Queries("DeviceVoltageState", {"Unit"}, "SymbolUnit")
    \cup Compares("DeviceVoltageState", {"Equal", "NotEqual"})
    \cup Methods("DeviceVoltageState", {"ConvertToUnit"},
        [new_unit |-> As("SymbolUnit")], Gives("DeviceVoltageState"))
    \cup Methods("DeviceVoltageState", {"Times"}, [factor |-> Number],
        Gives("DeviceVoltageState"))

DeviceVoltageStateRows2 ==
    Methods("DeviceVoltageState", {"Divides"}, [divisor |-> Number],
        Gives("DeviceVoltageState"))
    \cup Methods("DeviceVoltageState", {"Power"},
        [exponent |-> IntFor("float")], Gives("DeviceVoltageState"))
    \cup Methods("DeviceVoltageState", {"Add", "Subtract"},
        [other |-> Param({"DeviceVoltageState"}, Themselves({"int", "float"}),
        "DeviceVoltageState")], Gives("DeviceVoltageState"))
    \cup Queries("DeviceVoltageState", {"Negate", "Abs"},
        "DeviceVoltageState")
    \cup Queries("DeviceVoltageState", {"ToJSON"}, "string")
    \cup Makers("DeviceVoltageState", {"FromJSON"}, [json |-> As("string")],
        Gives("DeviceVoltageState"))

\* device-voltage-states-wrapper.cpp
DeviceVoltageStatesRows ==
    Makers("DeviceVoltageStates", {"New"},
        [dstates |-> As(ArrayOf("DeviceVoltageState"))],
        Gives("DeviceVoltageStates"))
    \cup Methods("DeviceVoltageStates", {"AddState"},
        [dstate |-> As("DeviceVoltageState")], Gives("none"))

DeviceVoltageStatesRows2 ==
    Methods("DeviceVoltageStates", {"Insert"},
        [dstate |-> As("DeviceVoltageState"), location |-> As("int")],
        Gives("none"))
    \cup Queries("DeviceVoltageStates", {"Clear"}, "none")
    \cup Methods("DeviceVoltageStates", {"FindState"},
        [conn |-> As("Connection")], Gives("DeviceVoltageState"))
    \cup Queries("DeviceVoltageStates", {"ToPoint"}, "Point")
    \cup Queries("DeviceVoltageStates", {"Size"}, "int")
    \cup Queries("DeviceVoltageStates", {"Empty"}, "bool")
    \cup Methods("DeviceVoltageStates", {"Contains"},
        [dstate |-> As("DeviceVoltageState")], Gives("bool"))
    \cup Compares("DeviceVoltageStates", {"Equal", "NotEqual"})
    \cup Queries("DeviceVoltageStates", {"ToJSON"}, "string")
    \cup Makers("DeviceVoltageStates", {"FromJSON"}, [json |-> As("string")],
        Gives("DeviceVoltageStates"))

\* point-wrapper.cpp
PointRows ==
    Makers("Point", {"NewFromRaw"}, [init |-> As("Map<Connection,float>"),
        unit |-> As("SymbolUnit")], Gives("Point"))

PointRows2 ==
    Makers("Point", {"NewFromQuantity"},
        [init |-> As("Map<Connection,Quantity>")], Gives("Point"))
    \cup Methods("Point", {"InsertOrAssign", "Insert"},
        [key |-> As("Connection"), value |-> As("Quantity")], Gives("none"))
    \cup Methods("Point", {"SetUnit"}, [unit |-> As("SymbolUnit")],
        Gives("none"))
    \cup Queries("Point", {"Unit"}, "SymbolUnit")

PointRows3 ==
    Queries("Point", {"Coordinates"}, "Map<Connection,Quantity>")
    \cup Queries("Point", {"Connections"}, ArrayOf("Connection"))
    \cup Methods("Point", {"Times"}, [factor |-> As("float")], Gives("Point"))
    \cup Methods("Point", {"Divides"}, [divisor |-> As("float")],
        Gives("Point"))
    \cup Methods("Point", {"Add", "Subtract"}, [other |-> As("Point")],
        Gives("Point"))
    \cup Queries("Point", {"Negate"}, "Point")
    \cup Compares("Point", {"Equal", "NotEqual"})
    \cup Queries("Point", {"ToJSON"}, "string")
    \cup Makers("Point", {"FromJSON"}, [json |-> As("string")],
        Gives("Point"))

\* quantity-wrapper.cpp
QuantityRows ==
    Makers("Quantity", {"New"}, [value |-> As("float"),
        unit |-> As("SymbolUnit")], Gives("Quantity"))
    \cup Queries("Quantity", {"Value"}, "float")
    \cup Queries("Quantity", {"Unit"}, "SymbolUnit")
    \cup Compares("Quantity", {"Equal", "NotEqual"})
    \cup Methods("Quantity", {"ConvertToUnit"},
        [new_unit |-> As("SymbolUnit")], Gives("Quantity"))
    \cup Methods("Quantity", {"Times"}, [factor |-> Param({"Quantity", "int",
        "float"}, Themselves({"int", "float"}), "Quantity")],
        Gives("Quantity"))
    \cup Methods("Quantity", {"Divides"}, [divisor |-> Param({"Quantity",
        "int", "float"}, Themselves({"int", "float"}), "Quantity")],
        Gives("Quantity"))
    \cup Methods("Quantity", {"Power"}, [exponent |-> As("float")],
        Gives("Quantity"))
    \cup Methods("Quantity", {"Add", "Subtract"}, [other |-> As("Quantity")],
        Gives("Quantity"))

QuantityRows2 ==
    Queries("Quantity", {"Negate", "Abs"}, "Quantity")
    \cup Queries("Quantity", {"ToJSON"}, "string")
    \cup Makers("Quantity", {"FromJSON"}, [json |-> As("string")],
        Gives("Quantity"))

\* vector-wrapper.cpp
VectorRows ==
    Makers("Vector", {"NewFromStart"}, [begin |-> As("Point")],
        Gives("Vector"))
    \cup Makers("Vector", {"New"}, [begin |-> As("Point"),
        end |-> As("Point")], Gives("Vector"))
    \cup Queries("Vector", {"EndPoint", "StartPoint"}, "Point")
    \cup Queries("Vector", {"Connections"}, ArrayOf("Connection"))
    \cup Queries("Vector", {"Unit"}, "SymbolUnit")
    \cup Queries("Vector", {"PrincipleConnection"}, "Connection")
    \cup Queries("Vector", {"Magnitude"}, "float")

VectorRows2 ==
    Methods("Vector", {"Times"}, [factor |-> Number], Gives("Vector"))
    \cup Methods("Vector", {"Divides"}, [divisor |-> Number], Gives("Vector"))
    \cup Methods("Vector", {"Add", "Subtract", "Project"},
        [other |-> As("Vector")], Gives("Vector"))
    \cup Queries("Vector", {"Negate", "TranslateToOrigin", "UnitVector",
        "Normalize"}, "Vector")
    \cup Methods("Vector", {"UpdateStartFromStates"},
        [states |-> As("DeviceVoltageStates")], Gives("Vector"))
    \cup Methods("Vector", {"Translate"}, [point |-> As("Point")],
        Gives("Vector"))
    \cup Methods("Vector", {"Extend", "Shrink"}, [extension |-> Number],
        Gives("Vector"))
    \cup Methods("Vector", {"UpdateUnit"}, [unit |-> As("SymbolUnit")],
        Gives("none"))
    \cup Compares("Vector", {"Equal"})

VectorRows3 ==
    Compares("Vector", {"NotEqual"})
    \cup Queries("Vector", {"ToJSON"}, "string")
    \cup Makers("Vector", {"FromJSON"}, [json |-> As("string")],
        Gives("Vector"))

\* symbol-unit-wrapper.cpp
SymbolUnitRows ==
    Makers("SymbolUnit", {"Meter", "Kilogram", "Second", "Ampere", "Kelvin",
        "Mole", "Candela", "Hertz", "Newton", "Pascal", "Joule", "Watt",
        "Coulomb", "Volt", "Farad", "Ohm", "Siemens", "Weber", "Tesla",
        "Henry", "Minute", "Hour", "ElectronVolt", "Celsius", "Fahrenheit",
        "Dimensionless", "Percent", "Radian", "Kilometer", "Millimeter",
        "Millivolt", "Kilovolt", "Milliampere"}, None, Gives("SymbolUnit"))

SymbolUnitRows2 ==
    Makers("SymbolUnit", {"Microampere", "Nanoampere", "Picoampere",
        "Millisecond", "Microsecond", "Nanosecond", "Picosecond", "Milliohm",
        "Kiloohm", "Megaohm", "Millihertz", "Kilohertz", "Megahertz",
        "Gigahertz", "Meterspersecond", "MeterspersecondSquared",
        "Newtonmeter", "Newtonpermeter", "Voltspermeter", "Voltspersecond",
        "Amperespermeter", "Voltsperampere", "Wattspermeterkelvin"}, None,
        Gives("SymbolUnit"))
    \cup Queries("SymbolUnit", {"Name", "Symbol", "ToJSON"}, "string")
    \cup Compares("SymbolUnit", {"IsEqual", "IsNotEqual"})
    \cup Makers("SymbolUnit", {"FromJSON"}, [json |-> As("string")],
        Gives("SymbolUnit"))

UnitTable ==
    DeviceVoltageStateRows \cup DeviceVoltageStateRows2
        \cup DeviceVoltageStatesRows \cup DeviceVoltageStatesRows2
        \cup PointRows \cup PointRows2 \cup PointRows3 \cup QuantityRows
        \cup QuantityRows2 \cup VectorRows \cup VectorRows2 \cup VectorRows3
        \cup SymbolUnitRows \cup SymbolUnitRows2
=============================================================================
