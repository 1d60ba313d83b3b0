-------------------------- MODULE LibraryWrappers ---------------------------
(* Wrapped routines of the libraries strings, io, log, database and         *)
(* testing, and of the demo qarray.  A routine outside a struct is a row    *)
(* under the name of its module.  A routine with several results has a row  *)
(* for each, and so has one that answers nil, or nil and an ErrorObject,    *)
(* when it cannot compute what it promised.                                 *)
EXTENDS WrapperTable

Strings(keys) == [k \in keys |-> As("string")]

\* strings-wrapper.cpp
StringsRows ==
    Makers("strings", {"Contains"}, Strings({"s", "sub"}), Gives("bool"))
    \cup Makers("strings", {"StartsWith"}, Strings({"s", "prefix"}), Gives("bool"))
    \cup Makers("strings", {"EndsWith"}, Strings({"s", "suffix"}), Gives("bool"))
    \cup Makers("strings", {"Length"}, Strings({"s"}), Gives("int"))
    \cup Makers("strings", {"IsEmpty"}, Strings({"s"}), Gives("bool"))
    \cup Makers("strings", {"ToUpper", "ToLower", "TrimSpace"}, Strings({"s"}),
        Gives("string"))
    \cup Makers("strings", {"Replace", "ReplaceAll"}, Strings({"s", "from", "to"}),
        Gives("string"))
    \cup Makers("strings", {"Concat"}, Strings({"a", "b"}), Gives("string"))
    \cup Makers("strings", {"Substring"}, "s" :> As("string")
        @@ [k \in {"begin", "length"} |-> As("int")], Gives("string"))

StringsRows2 ==
    Makers("strings", {"IndexOf"}, Strings({"s", "sub"}), Gives("int"))
    \cup Makers("strings", {"StripAnsi"}, Strings({"s"}), Gives("string"))
    \cup Makers("strings", {"FromInt"}, [i |-> As("int")], Gives("string"))
    \cup Makers("strings", {"FromDouble"}, [f |-> As("float")], Gives("string"))
    \cup Makers("strings", {"FromBool"}, [b |-> As("bool")], Gives("string"))
    \cup UNION {Makers("strings", {"ToInt"}, Strings({"s"}), result) :
                    result \in {Gives("int"), Nil("int")}}
    \cup UNION {Makers("strings", {"ToDouble"}, Strings({"s"}), result) :
                    result \in {Gives("float"), Nil("float")}}
    \cup UNION {Makers("strings", {"ToBool"}, Strings({"s"}), result) :
                    result \in {Gives("bool"), Nil("bool")}}

RegexRows ==
    Makers("RegexMatch", {"New"}, Strings({"pattern", "text"}), Gives("RegexMatch"))
    \cup Queries("RegexMatch", {"Matched"}, "bool")
    \cup Queries("RegexMatch", {"Full"}, "string")
    \cup Methods("RegexMatch", {"Group"}, [n |-> As("int")], Gives("string"))
    \cup Queries("RegexMatch", {"GroupCount"}, "int")
    \cup Makers("strings", {"RegexTest"}, Strings({"pattern", "text"}), Gives("bool"))
    \cup Makers("strings", {"RegexReplace"}, Strings({"s", "pattern", "replacement"}),
        Gives("string"))

FormatRows ==
    UNION {Makers("strings", {"Format"},
               [fmt |-> As("string"), args |-> As(ArrayOf("string"))], result) :
                   result \in {Gives("string"), Nil("string")}}

\* io-wrapper.cpp
IoRows ==
    Makers("io", {"BeginStdout", "BeginStderr"}, None, Gives("Error"))
    \cup Makers("io", {"End", "Peek"}, None, Gives("string"))
    \cup Makers("io", {"IsActive"}, None, Gives("bool"))
    \cup Makers("io", {"WriteStdout", "WriteStderr", "Println", "Print", "Eprintln",
        "Eprint"}, Strings({"msg"}), Gives("Error"))

\* log-wrapper.cpp
LogRows ==
    Makers("log", {"Info", "Debug", "Warn", "Err"}, Strings({"message"}), Gives("Error"))

\* database-wrapper.cpp
CharacteristicRows ==
    Makers("DeviceCharacteristic", {"New"}, None, Gives("DeviceCharacteristic"))
    \cup Queries("DeviceCharacteristic", {"GetScope", "GetName", "GetHash", "GetState",
        "GetUnitName", "GetValue", "GetExtra"}, "string")
    \cup Queries("DeviceCharacteristic", {"GetUncertainty"}, "float")
    \cup Methods("DeviceCharacteristic", {"GetBarrierGate", "GetPlungerGate",
        "GetReservoirGate", "GetScreeningGate"}, None,
        GivesAs("Connection", "string", "string"))
    \cup Queries("DeviceCharacteristic", {"GetTime"}, "int")

CharacteristicRows2 ==
    UNION {Methods("DeviceCharacteristic", {set[1]}, set[2] :> As(set[3]),
               Gives("DeviceCharacteristic")) :
           set \in {<<"SetScope", "scope", "string">>, <<"SetName", "name", "string">>,
                    <<"SetState", "state_val", "string">>, <<"SetHash", "hash", "string">>,
                    <<"SetUnitName", "unit_name", "string">>,
                    <<"SetValue", "characteristic", "string">>,
                    <<"SetExtra", "extra", "string">>, <<"SetTime", "time", "int">>,
                    <<"SetUncertainty", "uncertainty", "float">>}
               \cup {"SetBarrierGate", "SetPlungerGate", "SetReservoirGate",
                     "SetScreeningGate"} \X {"conn"} \X {"Connection"}}
    \cup Queries("DeviceCharacteristicList", {"Size"}, "int")
    \cup Methods("DeviceCharacteristicList", {"Get"}, [index |-> As("int")],
        Gives("DeviceCharacteristic"))

CharacteristicQueryRows ==
    Makers("DeviceCharacteristicQuery", {"New"}, None, Gives("DeviceCharacteristicQuery"))
    \cup Queries("DeviceCharacteristicQuery", {"GetScope", "GetName", "GetHash",
        "GetState", "GetUnitName", "GetExtra"}, "string")
    \cup Methods("DeviceCharacteristicQuery", {"GetBarrierGate", "GetPlungerGate",
        "GetReservoirGate", "GetScreeningGate"}, None,
        GivesAs("Connection", "string", "string"))
    \cup UNION {Methods("DeviceCharacteristicQuery", {set[1]}, set[2] :> As("string"),
               Gives("DeviceCharacteristicQuery")) :
           set \in {<<"SetScope", "scope">>, <<"SetName", "name">>,
                    <<"SetState", "state_val">>, <<"SetHash", "hash">>,
                    <<"SetUnitName", "unit_name">>}}
    \cup Methods("DeviceCharacteristicQuery", {"SetExtra"}, [extra |-> As("string")],
        GivesAs("DeviceCharacteristic", "DeviceCharacteristicQuery",
            "DeviceCharacteristicQuery"))
    \cup Methods("DeviceCharacteristicQuery", {"SetBarrierGate", "SetPlungerGate",
        "SetReservoirGate", "SetScreeningGate"}, [conn |-> As("Connection")],
        GivesAs("DeviceCharacteristic", "DeviceCharacteristicQuery",
            "DeviceCharacteristicQuery"))

DatabaseRows ==
    UNION {Makers("database", {"GetByName"}, [name |-> As("string")], result) :
               result \in {Gives("DeviceCharacteristic"), Nil("DeviceCharacteristic"),
                           Gives("bool")}}
    \cup Makers("database", {"GetAll"}, None, Gives("DeviceCharacteristicList"))
    \cup Makers("database", {"GetByHashRange"}, Strings({"hash_start", "hash_end"}),
        Gives("DeviceCharacteristicList"))
    \cup Makers("database", {"GetByQuery"}, [query |-> As("DeviceCharacteristicQuery")],
        Gives("DeviceCharacteristicList"))
    \cup Makers("database", {"Count"}, None, Gives("int"))
    \cup Makers("database", {"IsConnected"}, None, Gives("bool"))
    \cup Makers("database", {"Insert"}, [dchar |-> As("DeviceCharacteristic")],
        Gives("none"))
    \cup Makers("database", {"DeleteByName"}, [name |-> As("string")], Gives("bool"))
    \cup Makers("database", {"DeleteByHash"}, [hash |-> As("string")], Gives("int"))
    \cup Makers("database", {"InitializeSchema", "ClearAll"}, None, Gives("none"))
    \cup Makers("database", {"ExportToJson"}, [filename |-> As("string")], Gives("none"))
    \cup Makers("database", {"ImportFromJson"},
        [filename |-> As("string"), clear_existing |-> As("bool")], Gives("none"))

\* testing-wrapper.cpp
Both(keys, t) == "msg" :> As("string") @@ [k \in keys |-> As(t)]

TestContextRows ==
    Makers("TestContext", {"New"}, [name |-> As("string")], Gives("TestContext"))
    \cup Queries("TestContext", {"Name"}, "string")
    \cup Queries("TestContext", {"Passed"}, "bool")
    \cup Queries("TestContext", {"FailureCount"}, "int")
    \cup UNION {Methods("TestContext", expect[1], Both(expect[2], expect[3]),
               Gives("Error")) :
           expect \in {<<{"ExpectTrue", "ExpectFalse"}, {"condition"}, "bool">>,
                       <<{"ExpectIntEq", "ExpectIntNe"}, {"expected", "actual"}, "int">>,
                       <<{"ExpectIntLt", "ExpectIntGt"}, {"a", "b"}, "int">>,
                       <<{"ExpectFloatEq"}, {"expected", "actual", "tol"}, "float">>,
                       <<{"ExpectStrEq", "ExpectStrNe"}, {"expected", "actual"}, "string">>,
                       <<{"Fail", "Log"}, {}, "string">>}}

TestRunnerRows ==
    Makers("TestRunner", {"New"}, [suite_name |-> As("string")], Gives("TestRunner"))
    \cup Methods("TestRunner", {"Register"}, [test_name |-> As("string")], Gives("Error"))
    \cup Queries("TestRunner", {"PrintHeader", "PrintSummary"}, "Error")
    \cup Queries("TestRunner", {"BeginCurrent"}, "TestContext")
    \cup Methods("TestRunner", {"EndCurrent"}, [ctx |-> As("TestContext")], Gives("Error"))
    \cup Queries("TestRunner", {"HasNext"}, "bool")
    \cup Queries("TestRunner", {"CurrentName"}, "string")
    \cup Queries("TestRunner", {"PassedCount", "FailedCount"}, "int")

\* qarray-wrapper.cpp
QarrayRows ==
    Makers("qarray", {"CollectCurrentDeviceState"}, None, Gives("DeviceVoltageStates"))
    \cup Makers("qarray", {"CollectCurrentPlungerGates"}, None,
        Gives(ArrayOf("Connection")))
    \cup Makers("qarray", {"Ramp"}, [stop |-> As("Map<Connection,Quantity>")],
        Gives("none"))
    \cup UNION {Makers("qarray", {"AnalyzeBlips"},
               [begin |-> As("Map<Connection,Quantity>"),
                stop |-> As("Map<Connection,Quantity>"), resolution |-> As("int")],
               result) : result \in {Gives("int"), Gives(ArrayOf("DeviceVoltageStates"))}}
    \cup Makers("qarray", {"EndState"},
        [direction |-> As("Connection"), spacing |-> As("Quantity"),
         virtualization |-> As("FArray"), virtualNames |-> As("Connections")],
        Gives("Point"))

LibraryTable ==
    StringsRows \cup StringsRows2 \cup RegexRows \cup FormatRows \cup IoRows
        \cup LogRows \cup CharacteristicRows \cup CharacteristicRows2
        \cup CharacteristicQueryRows \cup DatabaseRows \cup TestContextRows
        \cup TestRunnerRows \cup QarrayRows
=============================================================================
