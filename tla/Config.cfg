SPECIFICATION Spec
CONSTANTS
    Keys = {"a", "../a"}
    BadKeys = {"../a"}
    Contents <- SomeContents
    Parsed <- SomeParsed
    MaxSeen = 2
INVARIANTS
    TypeOK
    ValueIsCurrent
    FailureIsExplained
