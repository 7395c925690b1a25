CONSTANTS
    Programs <- HangPrograms
    StackSize = 42
    MaxBlocks = 20
    Classes = {"exception", "system", "extend", "a"}
    UserClasses = {"a"}
    Exception = "exception"
    SystemException = "system"
    ExtendException = "extend"
    Raises = {"system"}
    Budget = 3
    MaxLog = 20
SPECIFICATION FairSpec
PROPERTIES UnwindEnds
CHECK_DEADLOCK FALSE
