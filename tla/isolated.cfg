\* Invocation after invocation, with two sets of cmake arguments.
CONSTANTS
  Projects <- BaseAndLib
  Plain <- PlainLib
  Selections <- WithDeps
  Order <- BaseFirst
  Args = {A, B}
  None = None
SPECIFICATION Spec
INVARIANTS TypeOK BuildsAsAskedUnlessDrifted FailureIsRepeated
