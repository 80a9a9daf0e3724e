SPECIFICATION FairSpec
CONSTANTS
    Steps = {s1}
    Kinds = {teacher}
    Commenters = {c1}
    NoText = NoText
    Malformed = Malformed
    MaxAttempts = 2
    MaxFaults = 2
PROPERTIES
    CommentsSettle
CHECK_DEADLOCK FALSE
