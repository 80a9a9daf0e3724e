SPECIFICATION Spec
CONSTANTS
    Steps = {s1}
    Kinds = {teacher, parent}
    Commenters = {c1, c2}
    NoText = NoText
    Malformed = Malformed
    MaxAttempts = 2
    MaxFaults = 1
SYMMETRY CommentSymmetry
INVARIANTS
    TypeOK
    StandingCommentCounted
    StepIsRated
    CountedOnce
PROPERTIES
    ReplacedOnlyWhenMet
CHECK_DEADLOCK FALSE
