SPECIFICATION Spec
CONSTANTS
  ClassNames <- MCClassNames
  MaxNesting = 4
  MaxClasses = 2
  MaxFors = 2
INVARIANTS TypeOK FlagsFollowNesting VerdictFollowsRules
CHECK_DEADLOCK FALSE
