CONSTANTS
  Tests <- MCTests
  Failing <- MCFailing
SPECIFICATION Spec
INVARIANTS CountsTheEnded SomeTestRuns
PROPERTY Ends
CHECK_DEADLOCK FALSE
