CONSTANTS
  c1 = c1
  c2 = c2
  Callbacks <- TwoCallbacks
SPECIFICATION Spec
INVARIANTS
  TypeOK
  CalledOnceWhenComplete
  InfoOutlivesRegistration
PROPERTIES
  PythonOnlyUnderGil
  CompletionIsReported
  FailureReclaimsThread
  GilComesBack
\* The program may have nothing left to do: every callback was called.
CHECK_DEADLOCK FALSE
