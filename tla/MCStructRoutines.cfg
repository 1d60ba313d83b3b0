SPECIFICATION Spec
CONSTANTS
  total = total
  delta = delta
  add = add
  replace = replace
  read = read
  Objects = {o1, o2}
  Nobody = Nobody
  Fields = {total}
  Names = {total, delta}
  Values = {0, 1}
  Zero = 0
  Defaults <- MCDefaults
  Routines = {add, replace, read}
  ParamsOf <- MCParamsOf
  OutputsOf <- MCOutputsOf
  PresetOf <- MCPresetOf
  MaxDepth = 3
SYMMETRY ObjectSymmetry
INVARIANTS
  TypeOK
  
  OwnWritesAreSeen
