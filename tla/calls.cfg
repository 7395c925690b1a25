SPECIFICATION CallsSpec
CONSTANTS
  Programs <- Menu
  Sfl <- SflFiles
  MaxDepth = 9
INVARIANTS TypeOK UnwindsToHandler ReadsLastWrite RunsOnce StackFits ExitCode DataAsWritten
PROPERTIES BindsAsDeclared ReadOnlyKept ImportsFirst Terminates
CHECK_DEADLOCK FALSE
