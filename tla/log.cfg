SPECIFICATION Spec
CONSTANTS
    Tags = {"a", "with a comma"}
    Times <- SomeTimes
    Comments <- SomeComments
    MaxWrites = 4
    MaxFailures = 2
CHECK_DEADLOCK FALSE
INVARIANTS TypeOK ReadsBack DamageContained
PROPERTY ReadingEnds
