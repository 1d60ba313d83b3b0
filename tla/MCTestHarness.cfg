SPECIFICATION Spec
CONSTANTS
  Suites <- MCSuites
  Tests <- MCTests
  States <- MCStates
  Goes <- MCGoes
  Fixtures <- MCFixtures
INVARIANTS
  TypeOK
  FailuresStayWithTests
  ZeroMeansAllPassed
PROPERTIES
  HarnessEnds
CHECK_DEADLOCK FALSE
