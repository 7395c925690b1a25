SPECIFICATION Spec
CONSTANTS
  ClassNames <- MCClassNames
  MaxNesting = 4
  MaxClasses = 2
  MaxFors = 2
INVARIANTS ChecksAsCommented
CHECK_DEADLOCK FALSE
