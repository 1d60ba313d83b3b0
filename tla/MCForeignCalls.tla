--------------------------- MODULE MCForeignCalls ---------------------------
(* All the tables.  MCAvoided names, one by one, the routines whose       *)
(* wrapper disagrees with the .fal declaration, and no others.            *)
EXTENDS ForeignCalls, NameWrappers, ContextWrappers, UnitWrappers, DomainWrappers,
        ArrayWrappers, LabelledArrayWrappers, MessageWrappers, LibraryWrappers

MCWrapped ==
    NameTable \cup ContextTable \cup UnitTable \cup DomainTable \cup ArrayTable
        \cup LabelledArrayTable \cup MessageTable \cup LibraryTable

MCAvoided ==
    {<<"AcquisitionContext", "Division">>, <<"CoupledLabelledDomain", "Domains">>,
     <<"DeviceVoltageState", "Power">>, <<"FArray", "Power">>,
     <<"InterpretationContext", "IndependentVariables">>, <<"Axes", "FromJSON">>}
    \cup {"InstrumentPort"} \X {"NewTimer", "NewExecutionClock"}
    \cup {"Ports"} \X {"GetIndex", "IsKnobs", "IsMeters"}
    \cup {"ControlArray", "MeasuredArray", "LabelledControlArray", "LabelledMeasuredArray"}
             \X {"Reshape", "FullGradient"}
    \cup {"ControlArray1D", "MeasuredArray1D", "LabelledControlArray1D",
          "LabelledMeasuredArray1D"} \X {"Reshape", "FullGradient", "EvenDivisions"}
    \cup {"Waveform"} \X {"NewCartesianWaveform1D", "NewCartesianIdentityWaveform1D",
          "NewCartesianWaveform", "NewCartesianIdentityWaveform",
          "NewCartesianWaveform2D", "NewCartesianIdentityWaveform2D"}
    \cup {"DiscreteSpace"} \X {"New", "CartesianDiscreteSpace", "Increasing", "GetProjection"}
    \cup {"UnitSpace"} \X {"Axes", "CreateArray"}
    \cup {"MeasurementRequest"} \X {"Waveforms", "MeterTransforms", "Equal", "NotEqual", "FromJSON"}
    \cup {"MeasurementResponse"} \X {"New", "Arrays"}
    \cup {"strings"} \X {"ToInt", "ToDouble", "ToBool", "Format"}
    \cup {<<"database", "GetByName">>}
    \cup {"DeviceCharacteristic", "DeviceCharacteristicQuery"}
             \X {"GetBarrierGate", "GetPlungerGate", "GetReservoirGate", "GetScreeningGate"}
    \cup {"DeviceCharacteristicQuery"}
             \X {"SetExtra", "SetBarrierGate", "SetPlungerGate", "SetReservoirGate",
                 "SetScreeningGate"}

ASSUME AvoidedAssumption ==
    MCAvoided = {Called(r) : r \in {s \in MCWrapped : ~Agrees(s)}}

ASSUME NamesAssumption == NamesApart

MCNoneAvoided == {}
=============================================================================
