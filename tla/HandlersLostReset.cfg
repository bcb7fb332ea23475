SPECIFICATION Spec
CONSTANTS
  Scenarios <- MCExtensions
  MaxCrashes = 1
CHECK_DEADLOCK FALSE
INVARIANT ExtensionClears
