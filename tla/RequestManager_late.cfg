SPECIFICATION Spec
CONSTANTS
    UseSpecification = TRUE
    LateCallbacks = TRUE
CHECK_DEADLOCK FALSE
INVARIANTS
    AnswersSettle
