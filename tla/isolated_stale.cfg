\* Invocations that end well with other cmake arguments than given.
CONSTANTS
  Projects <- BaseAndLib
  Plain <- PlainLib
  Selections <- WithDeps
  Order <- BaseFirst
  Args = {A, B}
  None = None
SPECIFICATION Spec
INVARIANT BuildsWithArguments
