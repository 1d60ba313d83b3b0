SPECIFICATION Spec
CONSTANTS
  x = x
  y = y
  z = z
  tuner = tuner
  helper = helper
  measure = measure
  fit = fit
  run = run
  Names = {x, y, z}
  Values = {v1}
  Unset = Unset
  Autotuners = {tuner, helper}
  InputsOf <- MCInputsOf
  OutputsOf <- MCOutputsOf
  StatesOf <- MCStatesOf
  ParamsOf <- MCParamsOf
  MaxDepth = 3
INVARIANTS
  TypeOK
  ScopeIsFixed
PROPERTIES
  ImplementsCallStack
