SPECIFICATION ManagerSpec
CONSTANTS
  x1 = x1
  x2 = x2
  file = file
  directory = directory
  namesake = namesake
  Procs = {p1}
  Paths = {x1, x2}
  Contents = {s1, s2}
  Nothing = Nothing
  Torn = Torn
  Packages = {file, directory, namesake}
  Files = {file, namesake}
  FilesOf <- MCFilesOf
  NameOf <- MCNameOf
SYMMETRY ContentSymmetry
INVARIANTS
  ManagerTypeOK
  NamesAreUnique
  EntriesHaveCopies
PROPERTIES
  RecordedIsCached
  RemovedIsUncached
