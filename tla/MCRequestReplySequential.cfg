SPECIFICATION Spec
CONSTANTS
  m1 = m1
  m2 = m2
  p1 = p1
  None = None
  Calls = {m1, m2, p1}
  SubjectOf <- SequentialSubject
  ThreadOf <- SequentialThread
INVARIANTS
  TypeOK
  AnswersOwnRequest
  NoStrayCallback
  RegistrationsBounded
  WaitingIsRegistered
