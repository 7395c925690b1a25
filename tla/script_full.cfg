CONSTANTS
    Programs <- FullPrograms
    StackSize = 12
    MaxBlocks = 20
    Classes = {"exception", "system", "extend", "a"}
    UserClasses = {"a"}
    Exception = "exception"
    SystemException = "system"
    ExtendException = "extend"
    Raises = {"system"}
    Budget = 3
    MaxLog = 20
SPECIFICATION Spec
INVARIANTS PushErrorsWhenFull
CHECK_DEADLOCK FALSE
